---- MODULE Spec2Model ----
(***************************************************************************)
(* Mini-CFO-Copilot: the query-to-intent classifier (agent/planner.py),    *)
(* the metric functions (agent/tools.py) and the chat loop that calls      *)
(* run_agent (app.py).                                                     *)
(*                                                                         *)
(* Text is a sequence of one-character strings, so that substring tests    *)
(* and regular expressions are computed on characters as Python does.      *)
(* A month is a month index year * 12 + (month - 1): every 'month' column  *)
(* holds first-of-month dates, and "month <= today" compares indexes.      *)
(* Money is an integer amount.                                             *)
(***************************************************************************)
EXTENDS Integers, Sequences, FiniteSets, TLC

\* F(v) with v evaluated once
Bind(v, F(_)) == CHOOSE r \in {F(x) : x \in {v}} : TRUE

(* ------------------------------ text ---------------------------------- *)

UpperCase == <<"A","B","C","D","E","F","G","H","I","J","K","L","M","N","O","P","Q","R","S","T","U","V","W","X","Y","Z">>
LowerCase == <<"a","b","c","d","e","f","g","h","i","j","k","l","m","n","o","p","q","r","s","t","u","v","w","x","y","z">>
Digits == <<"0","1","2","3","4","5","6","7","8","9">>

\* str.lower() on one character
LowerChar(c) ==
    IF \E i \in 1..26 : UpperCase[i] = c
    THEN LowerCase[CHOOSE i \in 1..26 : UpperCase[i] = c]
    ELSE c

\* query.lower()
lower(s) == [i \in 1..Len(s) |-> LowerChar(s[i])]

IsDigit(c) == \E i \in 1..10 : Digits[i] = c
IsSpace(c) == c = " "
IsWordChar(c) ==
    \/ \E i \in 1..26 : UpperCase[i] = c \/ LowerCase[i] = c
    \/ IsDigit(c)
    \/ c = "_"
DigitVal(c) == (CHOOSE i \in 1..10 : Digits[i] = c) - 1

\* int(s) for a string of decimal digits
RECURSIVE int(_)
int(ds) ==
    IF ds = <<>> THEN 0
    ELSE int(SubSeq(ds, 1, Len(ds) - 1)) * 10 + DigitVal(ds[Len(ds)])

\* the literal k occurs in s at position i
MatchAt(s, i, k) ==
    /\ i + Len(k) - 1 <= Len(s)
    /\ \A j \in 1..Len(k) : s[i + j - 1] = k[j]

\* Python's "k in s"
Contains(s, k) == \E i \in 1..Len(s) : MatchAt(s, i, k)

\* a greedy \s* / \d* from position i: the first position past the run
RECURSIVE SkipSpaces(_, _)
SkipSpaces(s, i) ==
    IF i <= Len(s) /\ IsSpace(s[i]) THEN SkipSpaces(s, i + 1) ELSE i
RECURSIVE SkipDigits(_, _)
SkipDigits(s, i) ==
    IF i <= Len(s) /\ IsDigit(s[i]) THEN SkipDigits(s, i + 1) ELSE i

\* the regex \b at the gap before position i (1 .. Len(s) + 1)
WordBoundary(s, i) ==
    LET before == i > 1 /\ IsWordChar(s[i - 1])
        after == i <= Len(s) /\ IsWordChar(s[i])
    IN  before # after

\* the keywords of get_intent and _extract_number_of_months
K_top == <<"t","o","p">>
K_bottom == <<"b","o","t","t","o","m">>
K_highest == <<"h","i","g","h","e","s","t">>
K_lowest == <<"l","o","w","e","s","t">>
K_best == <<"b","e","s","t">>
K_worst == <<"w","o","r","s","t">>
K_revenue == <<"r","e","v","e","n","u","e">>
K_opex == <<"o","p","e","x">>
K_ebitda == <<"e","b","i","t","d","a">>
K_gross_margin == <<"g","r","o","s","s"," ","m","a","r","g","i","n">>
K_cash_balance == <<"c","a","s","h"," ","b","a","l","a","n","c","e">>
K_trend == <<"t","r","e","n","d">>
K_history == <<"h","i","s","t","o","r","y">>
K_historical == <<"h","i","s","t","o","r","i","c","a","l">>
K_budget == <<"b","u","d","g","e","t">>
K_break_down == <<"b","r","e","a","k"," ","d","o","w","n">>
K_breakdown == <<"b","r","e","a","k","d","o","w","n">>
K_entity == <<"e","n","t","i","t","y">>
K_cash_runway == <<"c","a","s","h"," ","r","u","n","w","a","y">>
K_runway == <<"r","u","n","w","a","y">>
K_last == <<"l","a","s","t">>
K_past == <<"p","a","s","t">>
K_months == <<"m","o","n","t","h","s">>

\* month_regex: the 3-letter and the full English month names
MonthShort == <<<<"j","a","n">>,
    <<"f","e","b">>,
    <<"m","a","r">>,
    <<"a","p","r">>,
    <<"m","a","y">>,
    <<"j","u","n">>,
    <<"j","u","l">>,
    <<"a","u","g">>,
    <<"s","e","p">>,
    <<"o","c","t">>,
    <<"n","o","v">>,
    <<"d","e","c">>>>
MonthLong == <<<<"j","a","n","u","a","r","y">>,
    <<"f","e","b","r","u","a","r","y">>,
    <<"m","a","r","c","h">>,
    <<"a","p","r","i","l">>,
    <<"m","a","y">>,
    <<"j","u","n","e">>,
    <<"j","u","l","y">>,
    <<"a","u","g","u","s","t">>,
    <<"s","e","p","t","e","m","b","e","r">>,
    <<"o","c","t","o","b","e","r">>,
    <<"n","o","v","e","m","b","e","r">>,
    <<"d","e","c","e","m","b","e","r">>>>

(* ------------------------- agent/planner.py --------------------------- *)

RankingTokens == <<K_top, K_bottom, K_highest, K_lowest, K_best, K_worst>>

\* re.search(r'(top|bottom|highest|lowest|best|worst)\s*(\d*)', query):
\* <<>> for None, else <<m>> with the groups of the leftmost match
ranking_match(query) ==
    LET starts == {i \in 1..Len(query) :
                      \E t \in 1..6 : MatchAt(query, i, RankingTokens[t])}
    IN  IF starts = {} THEN <<>>
        ELSE LET i == CHOOSE x \in starts : \A y \in starts : x <= y
                 t == CHOOSE x \in 1..6 :
                          /\ MatchAt(query, i, RankingTokens[x])
                          /\ \A y \in 1..(x - 1) : ~MatchAt(query, i, RankingTokens[y])
                 b == SkipSpaces(query, i + Len(RankingTokens[t]))
                 c == SkipDigits(query, b)
             IN  <<[group1 |-> RankingTokens[t], group2 |-> SubSeq(query, b, c - 1)]>>

\* (last|past)\s*(\d+)\s*months tried at position i: group 2, <<>> when it fails
MonthCountAt(query, i) ==
    LET b == SkipSpaces(query, i + 4)
        c == SkipDigits(query, b)
        d == SkipSpaces(query, c)
    IN  IF /\ MatchAt(query, i, K_last) \/ MatchAt(query, i, K_past)
           /\ c > b
           /\ MatchAt(query, d, K_months)
        THEN SubSeq(query, b, c - 1)
        ELSE <<>>

extract_number_of_months(query, default) ==
    LET starts == {i \in 1..Len(query) : MonthCountAt(query, i) # <<>>}
    IN  IF starts = {} THEN default
        ELSE int(MonthCountAt(query, CHOOSE x \in starts : \A y \in starts : x <= y))

\* one alternative of month_regex at i, with the \b that follows the name
MonthFormAt(query, i, form) ==
    MatchAt(query, i, form) /\ WordBoundary(query, i + Len(form))

\* month_regex tried at position i: <<>>, or <<m>> with month_str, year_str
\* (<<>> when the optional year group did not take part) and the match's end
MonthMatchAt(query, i) ==
    LET ms == {m \in 1..12 : \/ MonthFormAt(query, i, MonthLong[m])
                             \/ MonthFormAt(query, i, MonthShort[m])}
    IN  IF ~WordBoundary(query, i) \/ ms = {} THEN <<>>
        ELSE LET m == CHOOSE x \in ms : \A y \in ms : x <= y
                 form == IF MonthFormAt(query, i, MonthLong[m])
                         THEN MonthLong[m] ELSE MonthShort[m]
                 e == i + Len(form)
                 b == SkipSpaces(query, e)
                 hasYear == /\ b > e
                            /\ b + 3 <= Len(query)
                            /\ \A j \in 0..3 : IsDigit(query[b + j])
             IN  <<[month_str |-> form,
                    year_str |-> IF hasYear THEN SubSeq(query, b, b + 3) ELSE <<>>,
                    next |-> IF hasYear THEN b + 4 ELSE e]>>

\* month_regex.finditer(query): the non-overlapping matches from pos on
RECURSIVE finditer(_, _)
finditer(query, pos) ==
    IF pos > Len(query) THEN <<>>
    ELSE LET m == MonthMatchAt(query, pos)
         IN  IF m # <<>> THEN m \o finditer(query, m[1].next)
             ELSE finditer(query, pos + 1)

\* datetime.strptime(s, '%b').month
strptime_b(s) == CHOOSE m \in 1..12 : MonthShort[m] = s

YearOf(ym) == ym \div 12
MonthOf(ym) == (ym % 12) + 1
MonthIndex(year, month_num) == year * 12 + (month_num - 1)

Range(s) == {s[i] : i \in 1..Len(s)}

\* a date string '%Y-%m-%d' is <<year, month, day>>; string order on it
DateLess(a, b) ==
    \/ a[1] < b[1]
    \/ a[1] = b[1] /\ a[2] < b[2]
    \/ a[1] = b[1] /\ a[2] = b[2] /\ a[3] < b[3]

RECURSIVE sorted(_)
sorted(S) ==
    IF S = {} THEN <<>>
    ELSE LET x == CHOOSE a \in S : \A b \in S : a = b \/ DateLess(a, b)
         IN  <<x>> \o sorted(S \ {x})

\* the year _extract_months gives one match (lines 118-126)
match_year(m, data_frames, now) ==
    LET month_num == strptime_b(SubSeq(m.month_str, 1, 3))
        relevant_dates == {r \in Range(data_frames.actuals) : MonthOf(r.month) = month_num}
    IN  IF m.year_str # <<>> THEN int(m.year_str)
        ELSE IF relevant_dates # {}
             THEN LET ys == {YearOf(r.month) : r \in relevant_dates}
                  IN  CHOOSE y \in ys : \A z \in ys : z <= y
             ELSE YearOf(now)

\* _extract_months: datetime(year, month_num, 1) raises ValueError for a year
\* below datetime.MINYEAR = 1
extract_months(query, data_frames, now) ==
    LET dates == {<<match_year(m, data_frames, now),
                    strptime_b(SubSeq(m.month_str, 1, 3)), 1>> :
                  m \in Range(finditer(query, 1))}
    IN  Bind(dates, LAMBDA found_months :
            IF \E d \in found_months : d[1] < 1
            THEN [raised |-> TRUE, exc |-> "ValueError"]
            ELSE [raised |-> FALSE, months |-> sorted(found_months)])

\* the calls of datetime.now() in _extract_months (line 126): one for every
\* match without a year whose month has no row in the actuals, up to the
\* match that raises
extract_months_reads(query, data_frames) ==
    LET ms == finditer(query, 1)
        raises(i) == ms[i].year_str # <<>> /\ int(ms[i].year_str) < 1
        reads(i) ==
            /\ ms[i].year_str = <<>>
            /\ \A r \in Range(data_frames.actuals) :
                  MonthOf(r.month) # strptime_b(SubSeq(ms[i].month_str, 1, 3))
    IN  Cardinality({i \in 1..Len(ms) :
                        reads(i) /\ \A j \in 1..(i - 1) : ~raises(j)})

\* Each block of get_intent is a rule: <<>> when it does not return, else
\* <<intent_data>>.

\* lines 53-62, "Ranking / Extrema"
ranking_rule(query) ==
    LET has(k) == Contains(query, k)
        rm == ranking_match(query)
        n == IF rm[1].group2 = <<>> THEN 1 ELSE int(rm[1].group2)
        ranking == IF rm[1].group1 \in {K_top, K_highest, K_best}
                   THEN "top" ELSE "bottom"
        found(metric) == <<[intent |-> "metric_ranking", metric |-> metric,
                            ranking |-> ranking, n |-> n]>>
    IN  IF rm = <<>> THEN <<>>
        ELSE IF has(K_revenue) THEN found("Revenue")
        ELSE IF has(K_opex) THEN found("Opex")
        ELSE IF has(K_ebitda) THEN found("EBITDA")
        ELSE IF has(K_gross_margin) THEN found("Gross Margin")
        ELSE <<>>

\* lines 64-71, "Trend Analysis"
trend_rule(query) ==
    LET has(k) == Contains(query, k)
        months_n == extract_number_of_months(query, 6)
    IN  IF ~(has(K_trend) \/ has(K_history) \/ has(K_historical)) THEN <<>>
        ELSE IF has(K_revenue)
        THEN <<[intent |-> "metric_trend", metric |-> "Revenue", months |-> months_n]>>
        ELSE IF has(K_opex)
        THEN <<[intent |-> "metric_trend", metric |-> "Opex", months |-> months_n]>>
        ELSE IF has(K_ebitda)
        THEN <<[intent |-> "metric_trend", metric |-> "EBITDA", months |-> months_n]>>
        ELSE IF has(K_gross_margin)
        THEN <<[intent |-> "gross_margin_trend", months |-> months_n]>>
        ELSE IF has(K_cash_balance)
        THEN <<[intent |-> "cash_balance_trend", months |-> months_n]>>
        ELSE <<>>

\* the metric tests of the ranking rule, ebitda included
multi_month_rule_with_ebitda(query, months) ==
    LET has(k) == Contains(query, k)
        found(metric) == <<[intent |-> "multi_month_metric", metric |-> metric,
                            months |-> months]>>
    IN  IF ~(Len(months) > 1) THEN <<>>
        ELSE IF has(K_revenue) THEN found("Revenue")
        ELSE IF has(K_opex) THEN found("Opex")
        ELSE IF has(K_ebitda) THEN found("EBITDA")
        ELSE IF has(K_gross_margin) THEN found("Gross Margin")
        ELSE <<>>

\* lines 73-77, "Specific Month(s) Analysis", several months
multi_month_rule(query, months) ==
    LET has(k) == Contains(query, k)
        found(metric) == <<[intent |-> "multi_month_metric", metric |-> metric,
                            months |-> months]>>
    IN  IF ~(Len(months) > 1) THEN <<>>
        ELSE IF has(K_revenue) THEN found("Revenue")
        ELSE IF has(K_opex) THEN found("Opex")
        ELSE IF has(K_gross_margin) THEN found("Gross Margin")
        ELSE <<>>

\* the ebitda test moved below the revenue tests
single_month_rule_revenue_first(query, months) ==
    LET has(k) == Contains(query, k)
        month == months[1]
        single(metric) == <<[intent |-> "single_metric", metric |-> metric,
                             month |-> month]>>
    IN  IF Len(months) # 1 THEN <<>>
        ELSE IF has(K_revenue) /\ has(K_budget)
        THEN <<[intent |-> "revenue_vs_budget", month |-> month]>>
        ELSE IF has(K_opex) /\ (has(K_break_down) \/ has(K_breakdown))
        THEN <<[intent |-> "opex_breakdown", month |-> month]>>
        ELSE IF has(K_revenue) /\ has(K_entity)
        THEN <<[intent |-> "revenue_variance_by_entity", month |-> month]>>
        ELSE IF has(K_revenue) THEN single("Revenue")
        ELSE IF has(K_ebitda)
        THEN <<[intent |-> "ebitda_single_month", month |-> month]>>
        ELSE IF has(K_opex) THEN single("Opex")
        ELSE IF has(K_gross_margin) THEN single("Gross Margin")
        ELSE <<>>

\* lines 79-87, one month
single_month_rule(query, months) ==
    LET has(k) == Contains(query, k)
        month == months[1]
        single(metric) == <<[intent |-> "single_metric", metric |-> metric,
                             month |-> month]>>
    IN  IF Len(months) # 1 THEN <<>>
        ELSE IF has(K_revenue) /\ has(K_budget)
        THEN <<[intent |-> "revenue_vs_budget", month |-> month]>>
        ELSE IF has(K_opex) /\ (has(K_break_down) \/ has(K_breakdown))
        THEN <<[intent |-> "opex_breakdown", month |-> month]>>
        ELSE IF has(K_ebitda)
        THEN <<[intent |-> "ebitda_single_month", month |-> month]>>
        ELSE IF has(K_revenue) /\ has(K_entity)
        THEN <<[intent |-> "revenue_variance_by_entity", month |-> month]>>
        ELSE IF has(K_revenue) THEN single("Revenue")
        ELSE IF has(K_opex) THEN single("Opex")
        ELSE IF has(K_gross_margin) THEN single("Gross Margin")
        ELSE <<>>

\* lines 89-93, "General Questions" and the fallback
general_rule(query) ==
    IF Contains(query, K_cash_runway) \/ Contains(query, K_runway)
    THEN [intent |-> "cash_runway_projection"]
    ELSE [intent |-> "unknown"]

\* get_intent, lines 53-93, on the lowercased query and the extracted months:
\* the first rule that returns
classify(query, months) ==
    IF ranking_rule(query) # <<>> THEN ranking_rule(query)[1]
    ELSE IF trend_rule(query) # <<>> THEN trend_rule(query)[1]
    ELSE IF multi_month_rule(query, months) # <<>> THEN multi_month_rule(query, months)[1]
    ELSE IF single_month_rule(query, months) # <<>> THEN single_month_rule(query, months)[1]
    ELSE general_rule(query)

\* get_intent: lowercases, extracts the months (which may raise), classifies
get_intent(query, data_frames, now) ==
    Bind(lower(query), LAMBDA q :
        Bind(extract_months(q, data_frames, now), LAMBDA ex :
            IF ex.raised THEN ex
            ELSE [raised |-> FALSE, intent_data |-> classify(q, ex.months)]))

(* -------------------------- agent/tools.py ---------------------------- *)

RECURSIVE Sum(_)
Sum(s) == IF s = <<>> THEN 0 ELSE s[1] + Sum(Tail(s))

\* the amount_usd column of a frame, summed
SumUsd(rows) == Sum([i \in 1..Len(rows) |-> rows[i].amount_usd])

RECURSIVE Concat(_)
Concat(ss) == IF ss = <<>> THEN <<>> ELSE ss[1] \o Concat(Tail(ss))

\* the missing rate filled with 0 instead of 1.0
convert_to_usd_fill_0(df, fx_rates) ==
    LET merged(r) ==
            LET hits == SelectSeq(fx_rates,
                            LAMBDA f : f.month = r.month /\ f.currency = r.currency)
            IN  IF hits = <<>>
                THEN <<r @@ [rate_to_usd |-> 0, amount_usd |-> r.amount * 0]>>
                ELSE [i \in 1..Len(hits) |->
                         r @@ [rate_to_usd |-> hits[i].rate_to_usd,
                               amount_usd |-> r.amount * hits[i].rate_to_usd]]
    IN  Concat([i \in 1..Len(df) |-> merged(df[i])])

\* _convert_to_usd: a left merge on (month, currency), one output row per
\* matching fx row and one with rate_to_usd = NaN when none matches; fillna
\* makes that rate 1.0; amount_usd = amount * rate_to_usd
convert_to_usd(df, fx_rates) ==
    LET merged(r) ==
            LET hits == SelectSeq(fx_rates,
                            LAMBDA f : f.month = r.month /\ f.currency = r.currency)
            IN  IF hits = <<>>
                THEN <<r @@ [rate_to_usd |-> 1, amount_usd |-> r.amount * 1]>>
                ELSE [i \in 1..Len(hits) |->
                         r @@ [rate_to_usd |-> hits[i].rate_to_usd,
                               amount_usd |-> r.amount * hits[i].rate_to_usd]]
    IN  Concat([i \in 1..Len(df) |-> merged(df[i])])

\* pd.to_datetime(month_str) of a '%Y-%m-%d' string, as a month index
to_datetime(month_str) == MonthIndex(month_str[1], month_str[2])

\* df[df['month'].dt.to_period('M') == target_month.to_period('M')]
month_rows(df, target_month) == SelectSeq(df, LAMBDA r : r.month = target_month)

\* df[df['month'] <= today]
up_to_today(df, today) == SelectSeq(df, LAMBDA r : r.month <= today)

\* pivot_table(index='month', columns='account_category', values='amount_usd',
\* aggfunc='sum').fillna(0): its index, its columns and one cell
pivot_index(df) == {df[i].month : i \in 1..Len(df)}
pivot_columns(df) == {df[i].account_category : i \in 1..Len(df)}
pivot_cell(df, m, c) ==
    SumUsd(SelectSeq(df, LAMBDA r : r.month = m /\ r.account_category = c))

\* the account categories of the schema; the columns filter(regex='^Opex')
\* keeps and the rows str.startswith('Opex:') keeps
Categories == {"Revenue", "COGS", "Opex: Marketing", "Opex: Admin"}
regex_Opex(c) == c \in {"Opex: Marketing", "Opex: Admin"}
startswith_Opex(c) == c \in {"Opex: Marketing", "Opex: Admin"}

\* pivot.filter(regex='^Opex').sum(axis=1) for month m
pivot_opex(df, m) ==
    SumUsd(SelectSeq(df, LAMBDA r : r.month = m /\ regex_Opex(r.account_category)))

\* pivot.get(c, pd.Series([0])).sum()
pivot_get_sum(df, c) == SumUsd(SelectSeq(df, LAMBDA r : r.account_category = c))

\* the outcome of a call: an exception, or the (summary, figure) pair with
\* figure <<>> for None and <<chart>> for a matplotlib figure
Raised(tool, exc) == [raised |-> TRUE, tool |-> tool, exc |-> exc]
Returned(tool, summary, figure) ==
    [raised |-> FALSE, tool |-> tool, summary |-> summary, figure |-> figure]

\* a pandas bar, barh or pie plot: with no data to draw, whether the plot
\* call returns or raises depends on the installed pandas/matplotlib
plot(tool, summary, chart, n_points) ==
    IF n_points > 0 THEN {Returned(tool, summary, <<chart>>)}
    ELSE {Returned(tool, summary, <<chart>>), Raised(tool, "IndexError")}

\* a metric value: a number n / d (d > 0), or what numpy's float division
\* by zero gives
Num(n) == [tag |-> "num", n |-> n, d |-> 1]
Ratio(n, d) ==
    IF d > 0 THEN [tag |-> "num", n |-> n, d |-> d]
    ELSE IF d < 0 THEN [tag |-> "num", n |-> -n, d |-> -d]
    ELSE IF n > 0 THEN [tag |-> "inf", n |-> 1, d |-> 0]
    ELSE IF n < 0 THEN [tag |-> "inf", n |-> -1, d |-> 0]
    ELSE [tag |-> "nan", n |-> 0, d |-> 0]
IsZero(v) == v.tag = "num" /\ v.n = 0

\* the window taken as the last `months` rows of the index
last_M_rows(index, months) ==
    {m \in index : Cardinality({k \in index : k > m}) < months}

\* s.sort_index().last(f'{months}M') on a month-start index: start_date is
\* index[-1] - months * MonthEnd, the last day of the month that lies
\* `months` before the latest one, and the rows after it are kept
last_M(index, months) ==
    IF index = {} THEN {}
    ELSE LET latest == CHOOSE m \in index : \A k \in index : k <= m
         IN  {m \in index : m > latest - months}

RECURSIVE ascending(_)
ascending(S) ==
    IF S = {} THEN <<>>
    ELSE LET x == CHOOSE a \in S : \A b \in S : a <= b
         IN  <<x>> \o ascending(S \ {x})

get_revenue_vs_budget(month_str, data_frames) ==
    LET actuals == convert_to_usd(data_frames.actuals, data_frames.fx)
        budget == convert_to_usd(data_frames.budget, data_frames.fx)
        target_month == to_datetime(month_str)
        actual_rev == SumUsd(SelectSeq(actuals,
            LAMBDA r : r.month = target_month /\ r.account_category = "Revenue"))
        budget_rev == SumUsd(SelectSeq(budget,
            LAMBDA r : r.month = target_month /\ r.account_category = "Revenue"))
        variance == actual_rev - budget_rev
        summary == [head |-> "Revenue for", month |-> target_month,
                    actual |-> actual_rev, budget |-> budget_rev,
                    variance |-> variance]
    IN  {Returned("get_revenue_vs_budget", summary,
                  <<[kind |-> "bar", values |-> <<actual_rev, budget_rev>>]>>)}

get_gross_margin_trend(months, data_frames, today) ==
    LET df_usd == convert_to_usd(data_frames.actuals, data_frames.fx)
        df_historical == up_to_today(df_usd, today)
        cols == pivot_columns(df_historical)
        gm(m) == Ratio((pivot_cell(df_historical, m, "Revenue")
                          - pivot_cell(df_historical, m, "COGS")) * 100,
                       pivot_cell(df_historical, m, "Revenue"))
        trend_data == ascending(last_M(pivot_index(df_historical), months))
        entries == [i \in 1..Len(trend_data) |->
                       [month |-> trend_data[i], value |-> gm(trend_data[i])]]
        summary == [head |-> "Gross Margin Trend", months |-> months,
                    entries |-> entries]
    IN  IF "Revenue" \notin cols \/ "COGS" \notin cols
        THEN {Raised("get_gross_margin_trend", "KeyError")}
        ELSE {Returned("get_gross_margin_trend", summary,
                       <<[kind |-> "line", points |-> entries]>>)}

get_opex_breakdown(month_str, data_frames) ==
    LET df_usd == convert_to_usd(data_frames.actuals, data_frames.fx)
        target_month == to_datetime(month_str)
        opex_data == SelectSeq(month_rows(df_usd, target_month),
                               LAMBDA r : startswith_Opex(r.account_category))
        cats == {opex_data[i].account_category : i \in 1..Len(opex_data)}
        amount(c) == SumUsd(SelectSeq(opex_data, LAMBDA r : r.account_category = c))
        opex_summary == {[category |-> c, amount |-> amount(c)] : c \in cats}
        total_opex == SumUsd(opex_data)
        summary == [head |-> "Opex Breakdown for", month |-> target_month,
                    total |-> total_opex, entries |-> opex_summary]
        chart == [kind |-> "pie", wedges |-> opex_summary]
    IN  \* a pie plot raises ValueError on a negative value
        IF \E c \in cats : amount(c) < 0
        THEN {Raised("get_opex_breakdown", "ValueError")}
        ELSE plot("get_opex_breakdown", summary, chart, total_opex)

\* int(x) for the float n / d with d > 0: truncation towards zero
trunc(n, d) == IF n >= 0 THEN n \div d ELSE -((-n) \div d)

\* the length test with 2 written for 3
calculate_net_burn_two_months(data_frames, today) ==
    LET cash_up_to_today == up_to_today(data_frames.cash, today)
        df_usd == convert_to_usd(data_frames.actuals, data_frames.fx)
        monthly_total(m) == SumUsd(month_rows(df_usd, m))
        burn_up_to_today == {m \in pivot_index(df_usd) : m <= today}
        last_3_months_burn == ascending(last_M(burn_up_to_today, 3))
        total == Sum([i \in 1..Len(last_3_months_burn) |->
                         monthly_total(last_3_months_burn[i])])
    IN  IF cash_up_to_today = <<>> THEN <<>>
        ELSE IF Len(last_3_months_burn) < 2 THEN <<>>
        ELSE <<[avg_monthly_burn |-> [num |-> -total, den |-> Len(last_3_months_burn)],
                latest_cash_balance |-> cash_up_to_today[Len(cash_up_to_today)].cash_usd,
                last_cash_month |-> cash_up_to_today[Len(cash_up_to_today)].month]>>

\* _calculate_net_burn: <<>> for (None, None, None), else <<r>>; the average
\* of the three monthly totals is kept as the fraction num / den
calculate_net_burn(data_frames, today) ==
    LET cash_up_to_today == up_to_today(data_frames.cash, today)
        df_usd == convert_to_usd(data_frames.actuals, data_frames.fx)
        monthly_total(m) == SumUsd(month_rows(df_usd, m))
        burn_up_to_today == {m \in pivot_index(df_usd) : m <= today}
        last_3_months_burn == ascending(last_M(burn_up_to_today, 3))
        total == Sum([i \in 1..Len(last_3_months_burn) |->
                         monthly_total(last_3_months_burn[i])])
    IN  IF cash_up_to_today = <<>> THEN <<>>
        ELSE IF Len(last_3_months_burn) < 3 THEN <<>>
        ELSE <<[avg_monthly_burn |-> [num |-> -total, den |-> Len(last_3_months_burn)],
                latest_cash_balance |-> cash_up_to_today[Len(cash_up_to_today)].cash_usd,
                last_cash_month |-> cash_up_to_today[Len(cash_up_to_today)].month]>>

\* the historical-cash line of both cash charts
historical_cash(data_frames, last_month) ==
    SelectSeq(data_frames.cash, LAMBDA r : r.month <= last_month)

get_cash_runway(avg_monthly_burn, latest_cash, last_month, data_frames) ==
    LET num == avg_monthly_burn.num
        den == avg_monthly_burn.den
        \* latest_cash / avg_monthly_burn
        runway_months == Ratio(latest_cash * den, num)
        int_runway == trunc(runway_months.n, runway_months.d)
        end_date == last_month + int_runway
        projection == [k \in 1..(int_runway + 2) |->
                          [month |-> last_month + (k - 1),
                           cash |-> Ratio(latest_cash * den - num * (k - 1), den)]]
        summary == [head |-> "Cash Runway Analysis", latest_cash |-> latest_cash,
                    avg_monthly_burn |-> avg_monthly_burn,
                    runway_months |-> runway_months, end_date |-> end_date]
    IN  \* numpy float division by zero gives inf or nan, and int() of it raises
        IF num = 0
        THEN {Raised("get_cash_runway", IF latest_cash = 0 THEN "ValueError"
                                        ELSE "OverflowError")}
        ELSE {Returned("get_cash_runway", summary,
                       <<[kind |-> "line", projection |-> projection,
                          historical |-> historical_cash(data_frames, last_month)]>>)}

get_cash_projection(avg_monthly_gain, latest_cash, last_month, data_frames) ==
    LET projection == [k \in 1..13 |->
                          [month |-> last_month + (k - 1),
                           cash |-> Ratio(latest_cash * avg_monthly_gain.den
                                            + avg_monthly_gain.num * (k - 1),
                                          avg_monthly_gain.den)]]
        summary == [head |-> "Cash Flow Positive Analysis", latest_cash |-> latest_cash,
                    avg_monthly_gain |-> avg_monthly_gain]
    IN  {Returned("get_cash_projection", summary,
                  <<[kind |-> "line", projection |-> projection,
                     historical |-> historical_cash(data_frames, last_month)]>>)}

get_ebitda(month_str, data_frames) ==
    LET df_usd == convert_to_usd(data_frames.actuals, data_frames.fx)
        target_month == to_datetime(month_str)
        month_data == month_rows(df_usd, target_month)
        revenue == pivot_get_sum(month_data, "Revenue")
        cogs == pivot_get_sum(month_data, "COGS")
        opex == SumUsd(SelectSeq(month_data, LAMBDA r : regex_Opex(r.account_category)))
        ebitda == revenue - cogs - opex
        summary == [head |-> "EBITDA Calculation for", month |-> target_month,
                    revenue |-> revenue, cogs |-> cogs, opex |-> opex,
                    ebitda |-> ebitda]
    IN  {Returned("get_ebitda", summary,
                  <<[kind |-> "bar", values |-> <<revenue, -cogs, -opex, ebitda>>]>>)}

\* the 'value' column get_metric_trend and get_metric_ranking add to the
\* pivot, for month m; the columns whose lookup raises KeyError when absent
metric_value(metric_name, df, m) ==
    IF metric_name = "Revenue" THEN Num(pivot_cell(df, m, "Revenue"))
    ELSE IF metric_name = "Opex" THEN Num(pivot_opex(df, m))
    ELSE IF metric_name = "EBITDA"
    THEN Num(pivot_cell(df, m, "Revenue") - pivot_cell(df, m, "COGS")
               - pivot_opex(df, m))
    ELSE Ratio((pivot_cell(df, m, "Revenue") - pivot_cell(df, m, "COGS")) * 100,
               pivot_cell(df, m, "Revenue"))
metric_columns(metric_name) ==
    IF metric_name = "Revenue" THEN {"Revenue"}
    ELSE IF metric_name = "Opex" THEN {}
    ELSE {"Revenue", "COGS"}

get_metric_trend(metric_name, months, data_frames, today) ==
    LET df_usd == convert_to_usd(data_frames.actuals, data_frames.fx)
        df_historical == up_to_today(df_usd, today)
        trend_data == ascending(last_M(pivot_index(df_historical), months))
        entries == [i \in 1..Len(trend_data) |->
                       [month |-> trend_data[i],
                        value |-> metric_value(metric_name, df_historical, trend_data[i])]]
        summary == [head |-> "Trend", metric |-> metric_name, months |-> months,
                    entries |-> entries]
    IN  IF ~(metric_columns(metric_name) \subseteq pivot_columns(df_historical))
        THEN {Raised("get_metric_trend", "KeyError")}
        ELSE {Returned("get_metric_trend", summary,
                       <<[kind |-> "line", points |-> entries]>>)}

\* the entities of the schema, in the (alphabetical) order of a sorted index
Entities == <<"EMEA", "ParentCo">>
EntityPos(e) == CHOOSE i \in 1..Len(Entities) : Entities[i] = e

\* the filter with <= 0 written for < 0
get_revenue_variance_by_entity_le(month_str, data_frames) ==
    LET actuals == convert_to_usd(data_frames.actuals, data_frames.fx)
        budget == convert_to_usd(data_frames.budget, data_frames.fx)
        target_month == to_datetime(month_str)
        actual_rev == SelectSeq(actuals,
            LAMBDA r : r.month = target_month /\ r.account_category = "Revenue")
        budget_rev == SelectSeq(budget,
            LAMBDA r : r.month = target_month /\ r.account_category = "Revenue")
        by_entity(rows, e) == SumUsd(SelectSeq(rows, LAMBDA r : r.entity = e))
        index == {actual_rev[i].entity : i \in 1..Len(actual_rev)}
                   \cup {budget_rev[i].entity : i \in 1..Len(budget_rev)}
        row(e) == [entity |-> e,
                   Actual |-> by_entity(actual_rev, e),
                   Budget |-> by_entity(budget_rev, e),
                   Variance |-> by_entity(actual_rev, e) - by_entity(budget_rev, e)]
        \* sort_values('Variance'): ascending, ties in index order
        before(a, b) == \/ row(a).Variance < row(b).Variance
                        \/ /\ row(a).Variance = row(b).Variance
                           /\ EntityPos(a) < EntityPos(b)
        order(S) == SortSeq(
            [i \in 1..Cardinality(S) |->
                CHOOSE e \in S : Cardinality({f \in S : EntityPos(f) < EntityPos(e)}) = i - 1],
            before)
        missed == order({e \in index : row(e).Variance <= 0})
        missed_budget == [i \in 1..Len(missed) |-> row(missed[i])]
        all == order(index)
        summary == [head |-> "Entities That Missed Revenue Budget for",
                    month |-> target_month,
                    congratulations |-> (missed_budget = <<>>),
                    entries |-> missed_budget]
        chart == [kind |-> "barh", bars |-> [i \in 1..Len(all) |-> row(all[i])]]
    IN  plot("get_revenue_variance_by_entity", summary, chart, Cardinality(index))

get_revenue_variance_by_entity(month_str, data_frames) ==
    LET actuals == convert_to_usd(data_frames.actuals, data_frames.fx)
        budget == convert_to_usd(data_frames.budget, data_frames.fx)
        target_month == to_datetime(month_str)
        actual_rev == SelectSeq(actuals,
            LAMBDA r : r.month = target_month /\ r.account_category = "Revenue")
        budget_rev == SelectSeq(budget,
            LAMBDA r : r.month = target_month /\ r.account_category = "Revenue")
        by_entity(rows, e) == SumUsd(SelectSeq(rows, LAMBDA r : r.entity = e))
        index == {actual_rev[i].entity : i \in 1..Len(actual_rev)}
                   \cup {budget_rev[i].entity : i \in 1..Len(budget_rev)}
        row(e) == [entity |-> e,
                   Actual |-> by_entity(actual_rev, e),
                   Budget |-> by_entity(budget_rev, e),
                   Variance |-> by_entity(actual_rev, e) - by_entity(budget_rev, e)]
        \* sort_values('Variance'): ascending, ties in index order
        before(a, b) == \/ row(a).Variance < row(b).Variance
                        \/ /\ row(a).Variance = row(b).Variance
                           /\ EntityPos(a) < EntityPos(b)
        order(S) == SortSeq(
            [i \in 1..Cardinality(S) |->
                CHOOSE e \in S : Cardinality({f \in S : EntityPos(f) < EntityPos(e)}) = i - 1],
            before)
        missed == order({e \in index : row(e).Variance < 0})
        missed_budget == [i \in 1..Len(missed) |-> row(missed[i])]
        all == order(index)
        summary == [head |-> "Entities That Missed Revenue Budget for",
                    month |-> target_month,
                    congratulations |-> (missed_budget = <<>>),
                    entries |-> missed_budget]
        chart == [kind |-> "barh", bars |-> [i \in 1..Len(all) |-> row(all[i])]]
    IN  plot("get_revenue_variance_by_entity", summary, chart, Cardinality(index))

get_cash_balance_trend(months, data_frames, today) ==
    LET cash_up_to_today == up_to_today(data_frames.cash, today)
        window == last_M({cash_up_to_today[i].month : i \in 1..Len(cash_up_to_today)},
                         months)
        \* sort_index() keeps rows of one month in file order
        sorted_rows == SortSeq(cash_up_to_today, LAMBDA a, b : a.month < b.month)
        last_n_months == SelectSeq(sorted_rows, LAMBDA r : r.month \in window)
        summary == [head |-> "Cash Balance Trend", months |-> months,
                    entries |-> last_n_months]
    IN  {Returned("get_cash_balance_trend", summary,
                  <<[kind |-> "line", points |-> last_n_months]>>)}

\* float order on metric values; NaN compares with nothing
ValLess(a, b) ==
    /\ a.tag # "nan" /\ b.tag # "nan"
    /\ IF a.tag = "inf" /\ b.tag = "inf" THEN a.n < b.n
       ELSE a.n * b.d < b.n * a.d

\* Series.sort_values(ascending=asc) over the months S of a pivot: NaN last,
\* equal values in index (chronological) order
RECURSIVE sort_values(_, _, _)
sort_values(S, val, asc) ==
    IF S = {} THEN <<>>
    ELSE LET nums == {m \in S : val[m].tag # "nan"}
             first(m) == \A k \in nums \ {m} :
                             \/ IF asc THEN ValLess(val[m], val[k])
                                ELSE ValLess(val[k], val[m])
                             \/ /\ ~ValLess(val[m], val[k])
                                /\ ~ValLess(val[k], val[m])
                                /\ m < k
             x == IF nums # {} THEN CHOOSE m \in nums : first(m)
                  ELSE CHOOSE m \in S : \A k \in S : m <= k
         IN  <<x>> \o sort_values(S \ {x}, val, asc)

\* s.head(n) for n >= 0
head(s, n) == SubSeq(s, 1, IF n < Len(s) THEN n ELSE Len(s))

get_metric_ranking(metric_name, ranking_type, n, data_frames, today) ==
    LET df_usd == convert_to_usd(data_frames.actuals, data_frames.fx)
        df_historical == up_to_today(df_usd, today)
        index == pivot_index(df_historical)
        value == [m \in index |-> metric_value(metric_name, df_historical, m)]
        asc == (ranking_type = "bottom")
        ranked_data == head(sort_values(index, value, asc), n)
        entries == [i \in 1..Len(ranked_data) |->
                       [month |-> ranked_data[i], value |-> value[ranked_data[i]]]]
        bar_months == sort_values(Range(ranked_data), value, TRUE)
        bars == [i \in 1..Len(bar_months) |->
                    [month |-> bar_months[i], value |-> value[bar_months[i]]]]
        summary == [head |-> "Month(s) for", ranking |-> ranking_type, n |-> n,
                    metric |-> metric_name, entries |-> entries]
    IN  IF ~(metric_columns(metric_name) \subseteq pivot_columns(df_historical))
        THEN {Raised("get_metric_ranking", "KeyError")}
        ELSE plot("get_metric_ranking", summary,
                  [kind |-> "barh", bars |-> bars], Len(ranked_data))

\* "No data found for <month>." and "No data found for the specified months."
NoData(tool, months) ==
    Returned(tool, [head |-> "No data found for", months |-> months], <<>>)

get_single_metric(metric_name, month_str, data_frames) ==
    LET df_usd == convert_to_usd(data_frames.actuals, data_frames.fx)
        target_month == to_datetime(month_str)
        month_data == month_rows(df_usd, target_month)
        revenue == pivot_get_sum(month_data, "Revenue")
        cogs == pivot_get_sum(month_data, "COGS")
        value == IF metric_name = "Gross Margin"
                 THEN (IF revenue # 0 THEN Ratio((revenue - cogs) * 100, revenue)
                       ELSE Num(0))
                 ELSE IF metric_name = "Revenue" THEN Num(revenue)
                 ELSE IF metric_name = "Opex"
                 THEN Num(SumUsd(SelectSeq(month_data,
                                  LAMBDA r : regex_Opex(r.account_category))))
                 ELSE Num(0)
        summary == [head |-> "for", metric |-> metric_name, month |-> target_month,
                    value |-> value,
                    unit |-> IF metric_name = "Gross Margin" THEN "%" ELSE "USD"]
    IN  IF month_data = <<>> THEN {NoData("get_single_metric", <<target_month>>)}
        ELSE {Returned("get_single_metric", summary, <<>>)}

\* strftime('%b'): the abbreviated month names
MonthAbbr == <<<<"J","a","n">>,
    <<"F","e","b">>,
    <<"M","a","r">>,
    <<"A","p","r">>,
    <<"M","a","y">>,
    <<"J","u","n">>,
    <<"J","u","l">>,
    <<"A","u","g">>,
    <<"S","e","p">>,
    <<"O","c","t">>,
    <<"N","o","v">>,
    <<"D","e","c">>>>

\* str(n) for n >= 0
RECURSIVE str_int(_)
str_int(n) ==
    IF n < 10 THEN <<Digits[n + 1]>>
    ELSE str_int(n \div 10) \o <<Digits[(n % 10) + 1]>>

\* target_month.strftime('%b %Y')
strftime_b_Y(m) == MonthAbbr[MonthOf(m)] \o <<" ">> \o str_int(YearOf(m))

\* the code-point order of the characters in use
CodeOrder == <<" ">> \o Digits \o UpperCase \o LowerCase
Ord(c) == CHOOSE i \in 1..Len(CodeOrder) : CodeOrder[i] = c

\* Python's a < b on strings
RECURSIVE StrLess(_, _)
StrLess(a, b) ==
    IF b = <<>> THEN FALSE
    ELSE IF a = <<>> THEN TRUE
    ELSE IF a[1] # b[1] THEN Ord(a[1]) < Ord(b[1])
    ELSE StrLess(Tail(a), Tail(b))

\* pd.Series(results).sort_index(): the entries in the order of their labels
RECURSIVE sort_index(_)
sort_index(S) ==
    IF S = {} THEN <<>>
    ELSE LET x == CHOOSE a \in S : \A b \in S : a = b \/ StrLess(a.label, b.label)
         IN  <<x>> \o sort_index(S \ {x})

get_multi_month_metric(metric_name, months_list, data_frames) ==
    LET df_usd == convert_to_usd(data_frames.actuals, data_frames.fx)
        target_months == [i \in 1..Len(months_list) |-> to_datetime(months_list[i])]
        revenue(m) == pivot_get_sum(month_rows(df_usd, m), "Revenue")
        cogs(m) == pivot_get_sum(month_rows(df_usd, m), "COGS")
        \* <<>> for a value that stays None
        value(m) ==
            IF metric_name = "Gross Margin"
            THEN (IF revenue(m) # 0
                  THEN <<Ratio((revenue(m) - cogs(m)) * 100, revenue(m))>>
                  ELSE <<>>)
            ELSE IF metric_name = "Revenue" THEN <<Num(revenue(m))>>
            ELSE IF metric_name = "Opex"
            THEN <<Num(SumUsd(SelectSeq(month_rows(df_usd, m),
                                LAMBDA r : regex_Opex(r.account_category))))>>
            ELSE <<>>
        results == {[label |-> strftime_b_Y(m), month |-> m, value |-> value(m)[1]] :
                    m \in {k \in Range(target_months) :
                              month_rows(df_usd, k) # <<>> /\ value(k) # <<>>}}
        results_df == sort_index(results)
        summary == [head |-> "Comparison for", metric |-> metric_name,
                    entries |-> results_df]
    IN  IF results = {} THEN {NoData("get_multi_month_metric", target_months)}
        ELSE {Returned("get_multi_month_metric", summary,
                       <<[kind |-> "bar", bars |-> results_df]>>)}

(* ---------------------- agent/planner.py: run_agent -------------------- *)

\* the fixed answers of run_agent itself
NotEnoughData ==
    Returned("none", [head |-> "Not enough data to calculate cash runway or projection."], <<>>)
Sorry ==
    Returned("none", [head |-> "Sorry, I'm not equipped to answer that question."], <<>>)

\* -avg_burn
Neg(f) == [num |-> -f.num, den |-> f.den]

\* the branch with > 0 written as >= 0
cash_runway_projection_ge(data_frames, today) ==
    Bind(calculate_net_burn(data_frames, today), LAMBDA burn :
        IF burn = <<>> THEN {NotEnoughData}
        ELSE IF burn[1].avg_monthly_burn.num >= 0
        THEN get_cash_runway(burn[1].avg_monthly_burn, burn[1].latest_cash_balance,
                             burn[1].last_cash_month, data_frames)
        ELSE get_cash_projection(Neg(burn[1].avg_monthly_burn),
                                 burn[1].latest_cash_balance,
                                 burn[1].last_cash_month, data_frames))

\* run_agent, lines 21-28: the cash_runway_projection branch
cash_runway_projection(data_frames, today) ==
    Bind(calculate_net_burn(data_frames, today), LAMBDA burn :
        IF burn = <<>> THEN {NotEnoughData}
        ELSE IF burn[1].avg_monthly_burn.num > 0
        THEN get_cash_runway(burn[1].avg_monthly_burn, burn[1].latest_cash_balance,
                             burn[1].last_cash_month, data_frames)
        ELSE get_cash_projection(Neg(burn[1].avg_monthly_burn),
                                 burn[1].latest_cash_balance,
                                 burn[1].last_cash_month, data_frames))

\* run_agent's routing (lines 16-46) of a classified intent: the outcomes the
\* call can have
route(intent_data, data_frames, today) ==
    LET intent == intent_data.intent
    IN  IF intent = "revenue_vs_budget"
        THEN get_revenue_vs_budget(intent_data.month, data_frames)
        ELSE IF intent = "opex_breakdown"
        THEN get_opex_breakdown(intent_data.month, data_frames)
        ELSE IF intent = "cash_runway_projection"
        THEN cash_runway_projection(data_frames, today)
        ELSE IF intent = "ebitda_single_month"
        THEN get_ebitda(intent_data.month, data_frames)
        ELSE IF intent = "metric_trend"
        THEN get_metric_trend(intent_data.metric, intent_data.months, data_frames, today)
        ELSE IF intent = "gross_margin_trend"
        THEN get_gross_margin_trend(intent_data.months, data_frames, today)
        ELSE IF intent = "revenue_variance_by_entity"
        THEN get_revenue_variance_by_entity(intent_data.month, data_frames)
        ELSE IF intent = "cash_balance_trend"
        THEN get_cash_balance_trend(intent_data.months, data_frames, today)
        ELSE IF intent = "metric_ranking"
        THEN get_metric_ranking(intent_data.metric, intent_data.ranking, intent_data.n,
                                data_frames, today)
        ELSE IF intent = "single_metric"
        THEN get_single_metric(intent_data.metric, intent_data.month, data_frames)
        ELSE IF intent = "multi_month_metric"
        THEN get_multi_month_metric(intent_data.metric, intent_data.months, data_frames)
        ELSE {Sorry}

\* run_agent: an exception of get_intent propagates to the caller
run_agent(classified, data_frames, today) ==
    IF classified.raised THEN {Raised("get_intent", classified.exc)}
    ELSE route(classified.intent_data, data_frames, today)

\* the calls of pd.Timestamp.now() of the tool an intent is routed to
\* (tools.py lines 69, 118, 207, 263, 284)
tool_reads(intent_data) ==
    IF intent_data.intent \in {"cash_runway_projection", "metric_trend",
                               "gross_margin_trend", "cash_balance_trend",
                               "metric_ranking"}
    THEN 1 ELSE 0

\* the clock reads of one run_agent call
run_agent_reads(query, classified, data_frames) ==
    extract_months_reads(lower(query), data_frames)
        + (IF classified.raised THEN 0 ELSE tool_reads(classified.intent_data))

\* the rate_to_usd and amount_usd columns added to df itself
after_convert_to_usd_in_place(df, fx_rates) == convert_to_usd(df, fx_rates)

\* the table df after _convert_to_usd(df, fx_rates) returned: pd.merge builds
\* a new frame, and fillna(inplace=True) and the amount_usd assignment act
\* on that frame
after_convert_to_usd(df, fx_rates) == df

\* the bundle after run_agent returned or raised: get_intent only reads it;
\* the tools pass actuals (and budget) to _convert_to_usd and work on
\* cash[...].copy() (tools.py lines 120, 264)
data_frames_after(classified, data_frames) ==
    IF classified.raised THEN data_frames
    ELSE [data_frames EXCEPT
            !.actuals =
                IF classified.intent_data.intent \in {"unknown", "cash_balance_trend"}
                THEN @ ELSE after_convert_to_usd(@, data_frames.fx),
            !.budget =
                IF classified.intent_data.intent
                      \in {"revenue_vs_budget", "revenue_variance_by_entity"}
                THEN after_convert_to_usd(@, data_frames.fx) ELSE @]

(* --------------------------- app.py: the chat loop --------------------- *)

\* the prompts of test_agent.py and one more per intent and edge
\* "What was June 2025 revenue vs budget in USD?"
Q_revenue_vs_budget == <<"W","h","a","t"," ","w","a","s"," ","J","u","n","e"," ","2","0","2","5"," ","r","e","v","e","n","u","e"," ","v","s"," ","b","u","d","g","e","t"," ","i","n"," ","U","S","D","?">>
\* "Show Gross Margin % trend for the last 3 months."
Q_gross_margin_trend == <<"S","h","o","w"," ","G","r","o","s","s"," ","M","a","r","g","i","n"," ","%"," ","t","r","e","n","d"," ","f","o","r"," ","t","h","e"," ","l","a","s","t"," ","3"," ","m","o","n","t","h","s",".">>
\* "Break down Opex by category for June 2025."
Q_opex_breakdown == <<"B","r","e","a","k"," ","d","o","w","n"," ","O","p","e","x"," ","b","y"," ","c","a","t","e","g","o","r","y"," ","f","o","r"," ","J","u","n","e"," ","2","0","2","5",".">>
\* "What is our cash runway right now?"
Q_cash_runway == <<"W","h","a","t"," ","i","s"," ","o","u","r"," ","c","a","s","h"," ","r","u","n","w","a","y"," ","r","i","g","h","t"," ","n","o","w","?">>
\* "What was the opex in July 2025?"
Q_single_metric == <<"W","h","a","t"," ","w","a","s"," ","t","h","e"," ","o","p","e","x"," ","i","n"," ","J","u","l","y"," ","2","0","2","5","?">>
\* "Show me revenue for June and July 2025"
Q_multi_month_metric == <<"S","h","o","w"," ","m","e"," ","r","e","v","e","n","u","e"," ","f","o","r"," ","J","u","n","e"," ","a","n","d"," ","J","u","l","y"," ","2","0","2","5">>
\* "What were the top 2 months for revenue?"
Q_metric_ranking == <<"W","h","a","t"," ","w","e","r","e"," ","t","h","e"," ","t","o","p"," ","2"," ","m","o","n","t","h","s"," ","f","o","r"," ","r","e","v","e","n","u","e","?">>
\* "What is the capital of France?"
Q_unknown == <<"W","h","a","t"," ","i","s"," ","t","h","e"," ","c","a","p","i","t","a","l"," ","o","f"," ","F","r","a","n","c","e","?">>
\* "EBITDA for June 2025"
Q_ebitda == <<"E","B","I","T","D","A"," ","f","o","r"," ","J","u","n","e"," ","2","0","2","5">>
\* "Which entity missed revenue in June 2025?"
Q_entity == <<"W","h","i","c","h"," ","e","n","t","i","t","y"," ","m","i","s","s","e","d"," ","r","e","v","e","n","u","e"," ","i","n"," ","J","u","n","e"," ","2","0","2","5","?">>
\* "gross margin for June 2025"
Q_single_gross_margin == <<"g","r","o","s","s"," ","m","a","r","g","i","n"," ","f","o","r"," ","J","u","n","e"," ","2","0","2","5">>
\* "gross margin for June and July 2025"
Q_multi_gross_margin == <<"g","r","o","s","s"," ","m","a","r","g","i","n"," ","f","o","r"," ","J","u","n","e"," ","a","n","d"," ","J","u","l","y"," ","2","0","2","5">>
\* "lowest gross margin"
Q_ranking_gross_margin == <<"l","o","w","e","s","t"," ","g","r","o","s","s"," ","m","a","r","g","i","n">>
\* "revenue trend"
Q_revenue_trend == <<"r","e","v","e","n","u","e"," ","t","r","e","n","d">>
\* "cash balance history"
Q_cash_balance_trend == <<"c","a","s","h"," ","b","a","l","a","n","c","e"," ","h","i","s","t","o","r","y">>
\* "top 0 months for opex"
Q_top_0 == <<"t","o","p"," ","0"," ","m","o","n","t","h","s"," ","f","o","r"," ","o","p","e","x">>
\* "revenue for Jan 0000"
Q_year_0000 == <<"r","e","v","e","n","u","e"," ","f","o","r"," ","J","a","n"," ","0","0","0","0">>
\* "ebitda trend past 2 months"
Q_ebitda_trend == <<"e","b","i","t","d","a"," ","t","r","e","n","d"," ","p","a","s","t"," ","2"," ","m","o","n","t","h","s">>
Queries == {Q_revenue_vs_budget,
    Q_gross_margin_trend,
    Q_opex_breakdown,
    Q_cash_runway,
    Q_single_metric,
    Q_multi_month_metric,
    Q_metric_ranking,
    Q_unknown,
    Q_ebitda,
    Q_entity,
    Q_single_gross_margin,
    Q_multi_gross_margin,
    Q_ranking_gross_margin,
    Q_revenue_trend,
    Q_cash_balance_trend,
    Q_top_0,
    Q_year_0000,
    Q_ebitda_trend}

VARIABLES
    data_frames,   \* the bundle load_data() returned: actuals, budget, cash, fx
    now,           \* the process clock, as the month index of today
    phase,         \* "idle": waiting at st.chat_input; "answered": a reply is shown
    query,         \* the prompt of the reply shown
    classified,    \* what get_intent gave for it
    result,        \* what run_agent gave for it
    clock_reads    \* how often that run_agent call read the process clock

vars == <<data_frames, now, phase, query, classified, result, clock_reads>>

\* bounds of the model
MaxRows == 3       \* rows of the actuals table
MaxTicks == 1      \* months the clock advances

Today0 == MonthIndex(2025, 6)

Row(m, c, a) ==
    [month |-> m, entity |-> "ParentCo", account_category |-> c,
     currency |-> "USD", amount |-> a]

\* the rows a table is drawn from, in file order
ActualsUniverse ==
    Concat([k \in 1..3 |->
        <<Row(MonthIndex(2025, 4 + k), "Revenue", 0),
          Row(MonthIndex(2025, 4 + k), "Revenue", 2),
          Row(MonthIndex(2025, 4 + k), "COGS", 1),
          Row(MonthIndex(2025, 4 + k), "Opex: Marketing", 1)>>])

\* the tables of at most k rows of U, rows in the order of U
Tables(U, k) ==
    {LET idx == ascending(I) IN [j \in 1..Len(idx) |-> U[idx[j]]] :
        I \in {J \in SUBSET (1..Len(U)) : Cardinality(J) <= k}}

Budget0 == <<Row(MonthIndex(2025, 6), "Revenue", 3)>>
Fx0 == <<[month |-> MonthIndex(2025, 6), currency |-> "USD", rate_to_usd |-> 1],
         [month |-> MonthIndex(2025, 6), currency |-> "EUR", rate_to_usd |-> 2]>>
CashTables ==
    {<<>>,
     <<[month |-> MonthIndex(2025, 5), cash_usd |-> 5],
       [month |-> MonthIndex(2025, 6), cash_usd |-> 4]>>}

NoQuery == <<>>
NotClassified == [raised |-> FALSE, intent_data |-> [intent |-> "none"]]
NoResult == Returned("none", [head |-> "none"], <<>>)

Init ==
    /\ data_frames \in [actuals : Tables(ActualsUniverse, MaxRows),
                        budget : {Budget0}, cash : CashTables, fx : {Fx0}]
    /\ now = Today0
    /\ phase = "idle"
    /\ query = NoQuery
    /\ classified = NotClassified
    /\ result = NoResult
    /\ clock_reads = 0

\* app.py lines 145-157: a prompt arrives and run_agent answers it
Ask(q) ==
    /\ phase = "idle"
    /\ \E c \in {get_intent(q, data_frames, now)} :
           /\ classified' = c
           /\ result' \in run_agent(c, data_frames, now)
           /\ clock_reads' = run_agent_reads(q, c, data_frames)
           /\ data_frames' = data_frames_after(c, data_frames)
    /\ query' = q
    /\ phase' = "answered"
    /\ UNCHANGED now

\* Streamlit reruns the script and waits for the next prompt
Rerun ==
    /\ phase = "answered"
    /\ phase' = "idle"
    /\ query' = NoQuery
    /\ classified' = NotClassified
    /\ result' = NoResult
    /\ clock_reads' = 0
    /\ UNCHANGED <<data_frames, now>>

\* the clock passes into the next month between two prompts
Tick ==
    /\ phase = "idle"
    /\ now < Today0 + MaxTicks
    /\ now' = now + 1
    /\ UNCHANGED <<data_frames, phase, query, classified, result, clock_reads>>

Next ==
    \/ \E q \in Queries : Ask(q)
    \/ Rerun
    \/ Tick

Spec == Init /\ [][Next]_vars

(* ------------- the classifier on prompts built from phrases ------------ *)

\* a prompt is at most MaxWords phrases, separated by one space
MaxWords == 3

\* the phrases: ranking tokens (one with a count), metric keywords, trend
\* words, month names with and without a year, and the other keywords
Vocabulary ==
    {
     <<"T","o","p"," ","3">>,   \* Top 3
     <<"w","o","r","s","t">>,   \* worst
     <<"r","e","v","e","n","u","e">>,   \* revenue
     <<"o","p","e","x">>,   \* opex
     <<"E","B","I","T","D","A">>,   \* EBITDA
     <<"g","r","o","s","s"," ","m","a","r","g","i","n">>,   \* gross margin
     <<"c","a","s","h"," ","b","a","l","a","n","c","e">>,   \* cash balance
     <<"t","r","e","n","d">>,   \* trend
     <<"l","a","s","t"," ","2"," ","m","o","n","t","h","s">>,   \* last 2 months
     <<"J","u","n","e">>,   \* June
     <<"j","u","l"," ","2","0","2","5">>,   \* jul 2025
     <<"j","a","n"," ","0","0","0","0">>,   \* jan 0000
     <<"b","u","d","g","e","t">>,   \* budget
     <<"e","n","t","i","t","y">>,   \* entity
     <<"b","r","e","a","k","d","o","w","n">>,   \* breakdown
     <<"r","u","n","w","a","y">>,   \* runway
     <<"r","e","v","e","n","u","e"," ","v","s"," ","b","u","d","g","e","t">>,   \* revenue vs budget
     <<"o","p","e","x"," ","b","r","e","a","k","d","o","w","n">>}   \* opex breakdown

Join(ws) ==
    Concat([i \in 1..(2 * Len(ws) - 1) |->
               IF i % 2 = 1 THEN ws[(i + 1) \div 2] ELSE <<" ">>])

Prompts == {Join(ws) : ws \in UNION {[1..k -> Vocabulary] : k \in 1..MaxWords}}

\* actuals with June rows in two years, and with none
ActualsTwoYears ==
    <<Row(MonthIndex(2023, 6), "Revenue", 1),
      Row(MonthIndex(2024, 6), "Revenue", 2),
      Row(MonthIndex(2024, 6), "COGS", 1),
      Row(MonthIndex(2024, 6), "Opex: Marketing", 1)>>

InitClassify ==
    /\ data_frames \in [actuals : {<<>>, ActualsTwoYears}, budget : {Budget0},
                        cash : {<<>>}, fx : {Fx0}]
    /\ now = Today0
    /\ phase = "idle"
    /\ query = NoQuery
    /\ classified = NotClassified
    /\ result = NoResult
    /\ clock_reads = 0

NextClassify ==
    \/ \E q \in Prompts : Ask(q)
    \/ Rerun

SpecClassify == InitClassify /\ [][NextClassify]_vars

(* --------------------- the runway question on cash data ---------------- *)

Q_runway == <<"H","o","w"," ","l","o","n","g"," ","i","s"," ","o","u","r"," ","r","u","n","w","a","y","?">>

\* one row a month from February to July 2025, spending or earning
BurnUniverse ==
    Concat([k \in 1..6 |->
        <<Row(MonthIndex(2025, 1 + k), "Opex: Marketing", -2),
          Row(MonthIndex(2025, 1 + k), "Revenue", 1)>>])

BurnCashTables ==
    {<<>>,
     <<[month |-> MonthIndex(2025, 5), cash_usd |-> 4]>>,
     <<[month |-> MonthIndex(2025, 6), cash_usd |-> 0],
       [month |-> MonthIndex(2025, 8), cash_usd |-> 7]>>,
     <<[month |-> MonthIndex(2025, 7), cash_usd |-> -3]>>}

InitBurn ==
    /\ data_frames \in [actuals : Tables(BurnUniverse, MaxRows), budget : {Budget0},
                        cash : BurnCashTables, fx : {Fx0}]
    /\ now = Today0
    /\ phase = "idle"
    /\ query = NoQuery
    /\ classified = NotClassified
    /\ result = NoResult
    /\ clock_reads = 0

NextBurn ==
    \/ \E q \in {Q_cash_runway, Q_runway} : Ask(q)
    \/ Rerun
    \/ Tick

SpecBurn == InitBurn /\ [][NextBurn]_vars

(* ------------------ ranking questions on monthly data ------------------ *)

\* "bottom 2 months for revenue"
Q_bottom_2_revenue == <<"b","o","t","t","o","m"," ","2"," ","m","o","n","t","h","s"," ","f","o","r"," ","r","e","v","e","n","u","e">>
\* "top 2 gross margin"
Q_top_2_gross_margin == <<"t","o","p"," ","2"," ","g","r","o","s","s"," ","m","a","r","g","i","n">>

\* April to July 2025 with a different Revenue each month, one month whose
\* Revenue can be 0, and COGS above and below the Revenue
RankUniverse ==
    <<Row(MonthIndex(2025, 4), "Revenue", 3),
      Row(MonthIndex(2025, 4), "Revenue", 0),
      Row(MonthIndex(2025, 4), "COGS", 1),
      Row(MonthIndex(2025, 5), "Revenue", 1),
      Row(MonthIndex(2025, 5), "COGS", 2),
      Row(MonthIndex(2025, 6), "Revenue", 2),
      Row(MonthIndex(2025, 6), "COGS", 1),
      Row(MonthIndex(2025, 7), "Revenue", 5)>>

RankQueries ==
    {Q_metric_ranking, Q_bottom_2_revenue, Q_ranking_gross_margin,
     Q_top_2_gross_margin, Q_top_0}

InitRank ==
    /\ data_frames \in [actuals : Tables(RankUniverse, MaxRows), budget : {Budget0},
                        cash : {<<>>}, fx : {Fx0}]
    /\ now = Today0
    /\ phase = "idle"
    /\ query = NoQuery
    /\ classified = NotClassified
    /\ result = NoResult
    /\ clock_reads = 0

NextRank ==
    \/ \E q \in RankQueries : Ask(q)
    \/ Rerun
    \/ Tick

SpecRank == InitRank /\ [][NextRank]_vars

(* ------------------- trend questions on months with gaps --------------- *)

\* "revenue trend for the last 2 months"
Q_revenue_trend_2 == <<"r","e","v","e","n","u","e"," ","t","r","e","n","d"," ","f","o","r"," ","t","h","e"," ","l","a","s","t"," ","2"," ","m","o","n","t","h","s">>
\* "cash balance history past 2 months"
Q_cash_trend_2 == <<"c","a","s","h"," ","b","a","l","a","n","c","e"," ","h","i","s","t","o","r","y"," ","p","a","s","t"," ","2"," ","m","o","n","t","h","s">>

\* a Revenue row a month from February to July 2025, and COGS in two of them
TrendUniverse ==
    Concat([k \in 1..6 |-> <<Row(MonthIndex(2025, 1 + k), "Revenue", k)>>])
        \o <<Row(MonthIndex(2025, 4), "COGS", 1), Row(MonthIndex(2025, 6), "COGS", 2)>>

\* the cash table is empty, or has one row a month with or without a gap
InitTrend ==
    /\ data_frames \in
          [actuals : Tables(TrendUniverse, MaxRows), budget : {Budget0}, fx : {Fx0},
           cash : {<<>>,
                   <<[month |-> MonthIndex(2025, 3), cash_usd |-> 5],
                     [month |-> MonthIndex(2025, 4), cash_usd |-> 4],
                     [month |-> MonthIndex(2025, 6), cash_usd |-> 3],
                     [month |-> MonthIndex(2025, 7), cash_usd |-> 2]>>,
                   <<[month |-> MonthIndex(2025, 5), cash_usd |-> 1],
                     [month |-> MonthIndex(2025, 6), cash_usd |-> 2]>>}]
    /\ now = Today0
    /\ phase = "idle"
    /\ query = NoQuery
    /\ classified = NotClassified
    /\ result = NoResult
    /\ clock_reads = 0

NextTrend ==
    \/ \E q \in {Q_gross_margin_trend, Q_revenue_trend, Q_revenue_trend_2,
                 Q_ebitda_trend, Q_cash_balance_trend, Q_cash_trend_2} : Ask(q)
    \/ Rerun
    \/ Tick

SpecTrend == InitTrend /\ [][NextTrend]_vars

(* ------------- entities and currencies: revenue against budget --------- *)

Entry(m, e, c, cur, a) ==
    [month |-> m, entity |-> e, account_category |-> c, currency |-> cur, amount |-> a]

\* June 2025 Revenue of two entities in USD, in EUR and in a currency without
\* an fx row, a row that is not Revenue and a row of another month
LedgerUniverse ==
    <<Entry(MonthIndex(2025, 6), "ParentCo", "Revenue", "USD", 3),
      Entry(MonthIndex(2025, 6), "ParentCo", "Revenue", "USD", 1),
      Entry(MonthIndex(2025, 6), "EMEA", "Revenue", "EUR", 1),
      Entry(MonthIndex(2025, 6), "EMEA", "Revenue", "EUR", 3),
      Entry(MonthIndex(2025, 6), "EMEA", "Revenue", "GBP", 2),
      Entry(MonthIndex(2025, 6), "ParentCo", "COGS", "USD", 1),
      Entry(MonthIndex(2025, 5), "EMEA", "Revenue", "EUR", 5)>>

InitLedger ==
    /\ data_frames \in
          [actuals : Tables(LedgerUniverse, MaxRows),
           budget : {<<>>,
                     Budget0,
                     <<Entry(MonthIndex(2025, 6), "ParentCo", "Revenue", "USD", 3),
                       Entry(MonthIndex(2025, 6), "EMEA", "Revenue", "EUR", 2)>>,
                     <<Entry(MonthIndex(2025, 6), "EMEA", "Revenue", "GBP", 4),
                       Entry(MonthIndex(2025, 5), "ParentCo", "Revenue", "USD", 9)>>},
           cash : {<<>>},
           fx : {<<>>,
                 Fx0,
                 <<[month |-> MonthIndex(2025, 6), currency |-> "EUR", rate_to_usd |-> 1],
                   [month |-> MonthIndex(2025, 5), currency |-> "EUR", rate_to_usd |-> 3]>>}]
    /\ now = Today0
    /\ phase = "idle"
    /\ query = NoQuery
    /\ classified = NotClassified
    /\ result = NoResult
    /\ clock_reads = 0

NextLedger ==
    \/ \E q \in {Q_entity, Q_revenue_vs_budget} : Ask(q)
    \/ Rerun
    \/ Tick

SpecLedger == InitLedger /\ [][NextLedger]_vars

(* ------------- an fx table with repeated (month, currency) rows -------- *)

\* the June 2025 EUR row of Fx0 loaded twice, and loaded with two rates
FxTwice == Fx0 \o <<Fx0[2]>>
FxTwoRates ==
    Fx0 \o <<[month |-> MonthIndex(2025, 6), currency |-> "EUR", rate_to_usd |-> 3]>>

InitFx ==
    /\ data_frames \in [actuals : Tables(LedgerUniverse, MaxRows),
                        budget : {<<>>, Budget0},
                        cash : {<<>>},
                        fx : {Fx0, FxTwice, FxTwoRates}]
    /\ now = Today0
    /\ phase = "idle"
    /\ query = NoQuery
    /\ classified = NotClassified
    /\ result = NoResult
    /\ clock_reads = 0

NextFx ==
    \/ \E q \in {Q_revenue_vs_budget, Q_entity} : Ask(q)
    \/ Rerun
    \/ Tick

SpecFx == InitFx /\ [][NextFx]_vars

(* ------------------------------ properties ---------------------------- *)

Answered == phase = "answered"
IntentData == classified.intent_data

\* the keyword tests of the classifier, restated on a lowercased prompt q
Has(q, k) == Contains(q, k)
HasRankingToken(q) == \E i \in 1..Len(RankingTokens) : Has(q, RankingTokens[i])
HasMetric(q) ==
    Has(q, K_revenue) \/ Has(q, K_opex) \/ Has(q, K_ebitda) \/ Has(q, K_gross_margin)
HasTrendWord(q) == Has(q, K_trend) \/ Has(q, K_history) \/ Has(q, K_historical)
RankingRuleMatched(q) == HasRankingToken(q) /\ HasMetric(q)
TrendRuleMatched(q) ==
    ~RankingRuleMatched(q) /\ HasTrendWord(q) /\ (HasMetric(q) \/ Has(q, K_cash_balance))

\* the direction and the count the ranking token of q gives
RankingOf(q, intent_data) ==
    \E m \in {ranking_match(q)[1]} :
        /\ intent_data.ranking =
              (IF m.group1 \in {K_top, K_highest, K_best} THEN "top" ELSE "bottom")
        /\ intent_data.n = (IF m.group2 = <<>> THEN 1 ELSE int(m.group2))

\* C2: a prompt with a ranking token and a metric keyword is classified
\* metric_ranking, with the direction of the token and the integer after
\* it (1 when there is none), whatever else the prompt contains.
C2_RankingPreemption ==
    Answered =>
        \A q \in {lower(query)} :
            RankingRuleMatched(q) =>
                /\ ~classified.raised
                /\ IntentData.intent = "metric_ranking"
                /\ RankingOf(q, IntentData)

\* C2, the part that holds: the same, for the prompts whose month
\* extraction returns.
C2_RankingPreemptionWhenExtracted ==
    (Answered /\ ~classified.raised) =>
        \A q \in {lower(query)} :
            RankingRuleMatched(q) =>
                /\ IntentData.intent = "metric_ranking"
                /\ RankingOf(q, IntentData)

\* the first single-month pattern, in the fixed order, that q matches
SingleMonthPattern(q, month) ==
    IF Has(q, K_revenue) /\ Has(q, K_budget)
    THEN <<[intent |-> "revenue_vs_budget", month |-> month]>>
    ELSE IF Has(q, K_opex) /\ (Has(q, K_break_down) \/ Has(q, K_breakdown))
    THEN <<[intent |-> "opex_breakdown", month |-> month]>>
    ELSE IF Has(q, K_ebitda)
    THEN <<[intent |-> "ebitda_single_month", month |-> month]>>
    ELSE IF Has(q, K_revenue) /\ Has(q, K_entity)
    THEN <<[intent |-> "revenue_variance_by_entity", month |-> month]>>
    ELSE IF Has(q, K_revenue)
    THEN <<[intent |-> "single_metric", metric |-> "Revenue", month |-> month]>>
    ELSE IF Has(q, K_opex)
    THEN <<[intent |-> "single_metric", metric |-> "Opex", month |-> month]>>
    ELSE IF Has(q, K_gross_margin)
    THEN <<[intent |-> "single_metric", metric |-> "Gross Margin", month |-> month]>>
    ELSE <<>>

\* C3: with neither the ranking rule nor the trend rule matched and exactly
\* one month extracted, the intent is the first pattern, in the fixed order,
\* that the prompt matches.
C3_SingleMonthPriority ==
    (Answered /\ ~classified.raised) =>
        \A q \in {lower(query)} :
            \A ex \in {extract_months(q, data_frames, now)} :
                (/\ ~RankingRuleMatched(q) /\ ~TrendRuleMatched(q)
                 /\ Len(ex.months) = 1) =>
                    \A pattern \in {SingleMonthPattern(q, ex.months[1])} :
                        IF pattern # <<>> THEN IntentData = pattern[1]
                        ELSE IntentData.intent \in {"cash_runway_projection", "unknown"}

\* a one-month prompt matching the revenue-and-budget pattern, the ebitda
\* pattern and the plain revenue pattern has been classified
C3_Witness ==
    /\ Answered /\ ~classified.raised
    /\ IntentData.intent = "revenue_vs_budget"
    /\ \E q \in {lower(query)} :
          /\ ~RankingRuleMatched(q) /\ ~TrendRuleMatched(q)
          /\ Has(q, K_ebitda) /\ Has(q, K_revenue) /\ Has(q, K_budget)

\* C4, as written: with neither the ranking rule nor the trend rule matched,
\* at least two months extracted and any of revenue, opex, ebitda, gross
\* margin in the prompt, the intent is multi_month_metric with a metric the
\* prompt names and exactly the extracted months.
C4_MultiMonthAnyMetric ==
    (Answered /\ ~classified.raised) =>
        \A q \in {lower(query)} :
            \A ex \in {extract_months(q, data_frames, now)} :
                (/\ ~RankingRuleMatched(q) /\ ~TrendRuleMatched(q)
                 /\ Len(ex.months) >= 2 /\ HasMetric(q)) =>
                    /\ IntentData.intent = "multi_month_metric"
                    /\ IntentData.months = ex.months
                    /\ \/ IntentData.metric = "Revenue" /\ Has(q, K_revenue)
                       \/ IntentData.metric = "Opex" /\ Has(q, K_opex)
                       \/ IntentData.metric = "EBITDA" /\ Has(q, K_ebitda)
                       \/ IntentData.metric = "Gross Margin" /\ Has(q, K_gross_margin)

\* C4, amended: the metric keywords of the multi-month rule are revenue,
\* opex and gross margin, tested in that order; a prompt with none of them
\* (ebitda alone included) is left to the general rules.
C4_MultiMonthThreeMetrics ==
    (Answered /\ ~classified.raised) =>
        \A q \in {lower(query)} :
            \A ex \in {extract_months(q, data_frames, now)} :
                (/\ ~RankingRuleMatched(q) /\ ~TrendRuleMatched(q)
                 /\ Len(ex.months) >= 2) =>
                    IF Has(q, K_revenue)
                    THEN IntentData = [intent |-> "multi_month_metric",
                                       metric |-> "Revenue", months |-> ex.months]
                    ELSE IF Has(q, K_opex)
                    THEN IntentData = [intent |-> "multi_month_metric",
                                       metric |-> "Opex", months |-> ex.months]
                    ELSE IF Has(q, K_gross_margin)
                    THEN IntentData = [intent |-> "multi_month_metric",
                                       metric |-> "Gross Margin", months |-> ex.months]
                    ELSE IntentData = [intent |-> IF Has(q, K_runway)
                                                  THEN "cash_runway_projection"
                                                  ELSE "unknown"]

\* a prompt naming two months and gross margin has been classified
C4_Witness ==
    /\ Answered /\ ~classified.raised
    /\ IntentData.intent = "multi_month_metric"
    /\ IntentData.metric = "Gross Margin"
    /\ Len(IntentData.months) = 2

\* the trend intent of a keyword of q, with the month count of q
TrendOf(q, intent_data) ==
    /\ \/ /\ intent_data.intent = "metric_trend"
          /\ \/ intent_data.metric = "Revenue" /\ Has(q, K_revenue)
             \/ intent_data.metric = "Opex" /\ Has(q, K_opex)
             \/ intent_data.metric = "EBITDA" /\ Has(q, K_ebitda)
       \/ intent_data.intent = "gross_margin_trend" /\ Has(q, K_gross_margin)
       \/ intent_data.intent = "cash_balance_trend" /\ Has(q, K_cash_balance)
    /\ intent_data.months = extract_number_of_months(q, 6)

\* C5: when the ranking rule did not match and the prompt has a trend word
\* and a metric keyword, the intent is the trend intent of a keyword of the
\* prompt, with the month count of "(last|past) N months", 6 without it,
\* also when the prompt names months.
C5_TrendClassification ==
    Answered =>
        \A q \in {lower(query)} :
            TrendRuleMatched(q) => (~classified.raised /\ TrendOf(q, IntentData))

\* C5, the part that holds: the same, for the prompts whose month
\* extraction returns.
C5_TrendClassificationWhenExtracted ==
    (Answered /\ ~classified.raised) =>
        \A q \in {lower(query)} : TrendRuleMatched(q) => TrendOf(q, IntentData)

\* no month rule applies to q: the months extracted (ex) are none, or q has
\* no metric keyword of the rule for their number
NoMonthPattern(q, ex) ==
    IF ex.raised THEN ~HasMetric(q)
    ELSE IF Len(ex.months) = 1 THEN ~HasMetric(q)
    ELSE IF Len(ex.months) >= 2
    THEN ~(Has(q, K_revenue) \/ Has(q, K_opex) \/ Has(q, K_gross_margin))
    ELSE TRUE

NoRuleMatches(q, ex) ==
    /\ ~RankingRuleMatched(q) /\ ~TrendRuleMatched(q)
    /\ NoMonthPattern(q, ex) /\ ~Has(q, K_runway)

\* C6: when no rule matches (no ranking+metric, no trend+metric, no
\* month+metric pattern, no "runway"), get_intent returns unknown and
\* run_agent returns the fixed "Sorry, ..." text with no chart, raising
\* nothing.
C6_UnrecognizedQuery ==
    Answered =>
        \A q \in {lower(query)} :
            \A ex \in {extract_months(q, data_frames, now)} :
                NoRuleMatches(q, ex) =>
                    /\ ~classified.raised
                    /\ IntentData = [intent |-> "unknown"]
                    /\ result = Sorry

\* C6, the part that holds: the same, for the prompts whose month
\* extraction returns.
C6_UnrecognizedQueryWhenExtracted ==
    (Answered /\ ~classified.raised) =>
        \A q \in {lower(query)} :
            \A ex \in {extract_months(q, data_frames, now)} :
                NoRuleMatches(q, ex) =>
                    /\ IntentData = [intent |-> "unknown"]
                    /\ result = Sorry

\* the reply shown answers a prompt classified cash_runway_projection
RunwayAnswered ==
    Answered /\ ~classified.raised /\ IntentData.intent = "cash_runway_projection"

\* C7: when the burn calculation succeeds, an average burn > 0 gives the
\* "Cash Runway Analysis" of get_cash_runway, an average burn <= 0 (0
\* included) the "Cash Flow Positive Analysis" of get_cash_projection with
\* gain = -burn >= 0; get_cash_runway is never called with a burn <= 0.
C7_DispatchOnSignOfBurn ==
    RunwayAnswered =>
        \A burn \in {calculate_net_burn(data_frames, now)} :
            /\ burn # <<>> =>
                  /\ ~result.raised
                  /\ IF burn[1].avg_monthly_burn.num > 0
                     THEN /\ result.tool = "get_cash_runway"
                          /\ result.summary.head = "Cash Runway Analysis"
                          /\ result.summary.avg_monthly_burn = burn[1].avg_monthly_burn
                     ELSE /\ result.tool = "get_cash_projection"
                          /\ result.summary.head = "Cash Flow Positive Analysis"
                          /\ result.summary.avg_monthly_gain = Neg(burn[1].avg_monthly_burn)
                          /\ result.summary.avg_monthly_gain.num >= 0
            /\ result.tool = "get_cash_runway" =>
                  (burn # <<>> /\ burn[1].avg_monthly_burn.num > 0)

\* a runway prompt has been answered on three months that net to exactly 0
C7_Witness ==
    /\ RunwayAnswered
    /\ ~result.raised
    /\ result.tool = "get_cash_projection"
    /\ result.summary.avg_monthly_gain.num = 0

\* the months of the actuals dated <= today, and whether the cash table has
\* a row dated <= today
HistoricalMonths ==
    {m \in {data_frames.actuals[i].month : i \in 1..Len(data_frames.actuals)} : m <= now}
HasCashRow == \E i \in 1..Len(data_frames.cash) : data_frames.cash[i].month <= now
RunwayOrProjection ==
    ~result.raised /\ result.tool \in {"get_cash_runway", "get_cash_projection"}

\* C8, as written: a runway prompt gets "Not enough data ..." when the
\* actuals hold fewer than 3 months dated <= today or the cash table has no
\* row dated <= today, and a runway or projection result when at least 3
\* historical months and a cash row exist.
C8_ThreeHistoricalMonths ==
    RunwayAnswered =>
        IF Cardinality(HistoricalMonths) < 3 \/ ~HasCashRow
        THEN result = NotEnoughData
        ELSE RunwayOrProjection

\* the latest historical month and the two calendar months before it all
\* have rows
TrailingQuarterComplete ==
    \E latest \in HistoricalMonths :
        /\ \A m \in HistoricalMonths : m <= latest
        /\ {latest - 2, latest - 1} \subseteq HistoricalMonths

\* C8, amended: the three months are the three calendar months ending at
\* the latest historical month; a runway prompt gets a runway or projection
\* result when each of them has rows and a cash row dated <= today exists,
\* and "Not enough data ..." otherwise, so also with fewer than 3
\* historical months.
C8_ThreeTrailingMonths ==
    RunwayAnswered =>
        /\ IF TrailingQuarterComplete /\ HasCashRow
           THEN RunwayOrProjection
           ELSE result = NotEnoughData
        /\ (Cardinality(HistoricalMonths) < 3 \/ ~HasCashRow) => result = NotEnoughData

\* a runway prompt has been answered from three consecutive months
C8_Witness ==
    /\ RunwayAnswered
    /\ Cardinality(HistoricalMonths) = 3
    /\ TrailingQuarterComplete /\ HasCashRow
    /\ RunwayOrProjection
    /\ result.tool = "get_cash_runway"

\* C1: run_agent returns a (text, chart-or-None) pair for every prompt and
\* every bundle; nothing in it raises.
C1_RunAgentReturns == Answered => ~result.raised

\* the intents that carry one month
SingleMonthIntents ==
    {"revenue_vs_budget", "opex_breakdown", "ebitda_single_month",
     "revenue_variance_by_entity", "single_metric"}

\* C9: for a single-month intent whose month has no row in the actuals, the
\* reply is the plain "No data found ..." text with no chart.
C9_NoDataForMonth ==
    (/\ Answered /\ ~classified.raised
     /\ IntentData.intent \in SingleMonthIntents
     /\ month_rows(data_frames.actuals, to_datetime(IntentData.month)) = <<>>) =>
        /\ ~result.raised
        /\ result.figure = <<>>
        /\ result.summary.head = "No data found for"

\* the Revenue of month m in the actuals, in USD
RevenueOf(m) ==
    SumUsd(SelectSeq(convert_to_usd(data_frames.actuals, data_frames.fx),
                     LAMBDA r : r.month = m /\ r.account_category = "Revenue"))
HasRows(m) == month_rows(data_frames.actuals, m) # <<>>

\* the (month, value) entries of the reply, none for a no-data reply
EntriesShown == IF "entries" \in DOMAIN result.summary THEN result.summary.entries ELSE <<>>

\* C10: each of the four Gross Margin operations reports a period whose
\* Revenue sums to 0 with the value 0: no infinite or undefined value, and
\* the period is not dropped.
C10_ZeroRevenueIsZeroMargin ==
    (Answered /\ ~classified.raised /\ ~result.raised) =>
        /\ (IntentData.intent = "single_metric" /\ IntentData.metric = "Gross Margin") =>
              \A m \in {to_datetime(IntentData.month)} :
                  (HasRows(m) /\ RevenueOf(m) = 0) => IsZero(result.summary.value)
        /\ (IntentData.intent = "multi_month_metric" /\ IntentData.metric = "Gross Margin") =>
              \A k \in 1..Len(IntentData.months) :
                  \A m \in {to_datetime(IntentData.months[k])} :
                      (HasRows(m) /\ RevenueOf(m) = 0) =>
                          \E i \in 1..Len(EntriesShown) :
                              EntriesShown[i].month = m /\ IsZero(EntriesShown[i].value)
        /\ (\/ IntentData.intent = "gross_margin_trend"
            \/ IntentData.intent = "metric_ranking" /\ IntentData.metric = "Gross Margin") =>
              \A i \in 1..Len(EntriesShown) :
                  RevenueOf(EntriesShown[i].month) = 0 => IsZero(EntriesShown[i].value)

\* the COGS and the Opex of month m in the actuals, in USD
CogsOf(m) ==
    SumUsd(SelectSeq(convert_to_usd(data_frames.actuals, data_frames.fx),
                     LAMBDA r : r.month = m /\ r.account_category = "COGS"))
OpexOf(m) ==
    SumUsd(SelectSeq(convert_to_usd(data_frames.actuals, data_frames.fx),
                     LAMBDA r : r.month = m /\ regex_Opex(r.account_category)))

\* the metric of month m as the fraction n / d with d > 0: Revenue, Opex,
\* EBITDA = Revenue - COGS - Opex, and Gross Margin % = (Revenue - COGS) /
\* Revenue * 100, which is 0 for a month whose Revenue is 0
MetricOf(metric, m) ==
    IF metric = "Revenue" THEN [n |-> RevenueOf(m), d |-> 1]
    ELSE IF metric = "Opex" THEN [n |-> OpexOf(m), d |-> 1]
    ELSE IF metric = "EBITDA" THEN [n |-> RevenueOf(m) - CogsOf(m) - OpexOf(m), d |-> 1]
    ELSE IF RevenueOf(m) = 0 THEN [n |-> 0, d |-> 1]
    ELSE IF RevenueOf(m) > 0
    THEN [n |-> (RevenueOf(m) - CogsOf(m)) * 100, d |-> RevenueOf(m)]
    ELSE [n |-> (CogsOf(m) - RevenueOf(m)) * 100, d |-> -RevenueOf(m)]
Below(a, b) == a.n * b.d < b.n * a.d

\* the reply shown is the result of get_metric_ranking
RankingAnswered ==
    /\ Answered /\ ~classified.raised /\ ~result.raised
    /\ IntentData.intent = "metric_ranking"

\* the summary lists min(n, historical months) months, each historical and
\* none twice, best first for the direction, and no month left out beats a
\* listed one
RankingSelected ==
    \A L \in {[i \in 1..Len(EntriesShown) |->
                  MetricOf(IntentData.metric, EntriesShown[i].month)]} :
        /\ Len(L) = (IF IntentData.n < Cardinality(HistoricalMonths)
                     THEN IntentData.n ELSE Cardinality(HistoricalMonths))
        /\ \A i \in 1..Len(L) : EntriesShown[i].month \in HistoricalMonths
        /\ \A i, j \in 1..Len(L) : i < j => EntriesShown[i].month # EntriesShown[j].month
        /\ \A i, j \in 1..Len(L) :
              i < j => IF IntentData.ranking = "top" THEN ~Below(L[i], L[j])
                       ELSE ~Below(L[j], L[i])
        /\ \A i \in 1..Len(L) :
              \A k \in HistoricalMonths \ {EntriesShown[j].month : j \in 1..Len(L)} :
                  IF IntentData.ranking = "top"
                  THEN ~Below(L[i], MetricOf(IntentData.metric, k))
                  ELSE ~Below(MetricOf(IntentData.metric, k), L[i])

\* C11: get_metric_ranking considers only months dated <= today; its summary
\* lists exactly min(n, number of historical months) months, for top the
\* months with the n largest metric values, largest first, for bottom the n
\* smallest, smallest first; no other month is listed and none twice.
C11_RankingSelection == RankingAnswered => RankingSelected

\* the same, for the rankings in which no historical month has Revenue 0 or
\* the metric is not Gross Margin
C11_RankingSelectionOfDefinedValues ==
    (/\ RankingAnswered
     /\ \/ IntentData.metric # "Gross Margin"
        \/ \A m \in HistoricalMonths : RevenueOf(m) # 0) => RankingSelected

\* the bars of the chart of the reply
BarsShown == IF result.figure # <<>> /\ "bars" \in DOMAIN result.figure[1]
             THEN result.figure[1].bars ELSE <<>>

\* the bars are the listed months, in ascending order of the metric
BarsAscending ==
    /\ result.figure # <<>>
    /\ Len(BarsShown) = Len(EntriesShown)
    /\ {BarsShown[i].month : i \in 1..Len(BarsShown)}
          = {EntriesShown[i].month : i \in 1..Len(EntriesShown)}
    /\ \A i, j \in 1..Len(BarsShown) :
          i < j => ~Below(MetricOf(IntentData.metric, BarsShown[j].month),
                          MetricOf(IntentData.metric, BarsShown[i].month))

\* C12: the bars of the chart of get_metric_ranking are the months of the
\* text list, in ascending value order, for top as well as bottom.
C12_RankingChartAscending == RankingAnswered => BarsAscending

\* the same, for the rankings in which no historical month has Revenue 0 or
\* the metric is not Gross Margin
C12_RankingChartAscendingOfDefinedValues ==
    (/\ RankingAnswered
     /\ \/ IntentData.metric # "Gross Margin"
        \/ \A m \in HistoricalMonths : RevenueOf(m) # 0) => BarsAscending

\* the reply shown is the result of one of the three trend operations
TrendAnswered ==
    /\ Answered /\ ~classified.raised /\ ~result.raised
    /\ IntentData.intent \in {"metric_trend", "gross_margin_trend", "cash_balance_trend"}

\* the months with data dated <= today: of the cash table for the cash
\* balance trend, of the actuals for the others
AvailableMonths ==
    IF IntentData.intent = "cash_balance_trend"
    THEN {m \in {data_frames.cash[i].month : i \in 1..Len(data_frames.cash)} : m <= now}
    ELSE HistoricalMonths

ShownMonths == {EntriesShown[i].month : i \in 1..Len(EntriesShown)}
Chronological ==
    \A i, j \in 1..Len(EntriesShown) :
        i < j => EntriesShown[i].month < EntriesShown[j].month

\* C13, as written: a trend with window N holds exactly the min(N, k) latest
\* of the k months with data dated <= today, in chronological order,
\* contiguous or not, and no month dated after today.
C13_TrendLatestAvailable ==
    TrendAnswered =>
        /\ ShownMonths = {m \in AvailableMonths :
                             Cardinality({k \in AvailableMonths : k > m}) < IntentData.months}
        /\ Chronological
        /\ \A m \in ShownMonths : m <= now

\* C13, amended: the window is the N calendar months ending at the latest
\* month with data dated <= today; the trend holds exactly the months with
\* data inside it, in chronological order, and no month dated after today.
C13_TrendCalendarWindow ==
    TrendAnswered =>
        /\ ShownMonths = {m \in AvailableMonths :
                             \A latest \in AvailableMonths : m > latest - IntentData.months}
        /\ Chronological
        /\ \A m \in ShownMonths : m <= now

\* a trend has been answered with fewer months than min(N, k), because an
\* available month lies outside the calendar window
C13_Witness ==
    /\ TrendAnswered
    /\ ShownMonths # {}
    /\ Cardinality(ShownMonths) < IntentData.months
    /\ Cardinality(ShownMonths) < Cardinality(AvailableMonths)

\* the reply shown is the result of get_multi_month_metric
MultiMonthAnswered ==
    /\ Answered /\ ~classified.raised /\ ~result.raised
    /\ IntentData.intent = "multi_month_metric"
RequestedMonths ==
    {to_datetime(IntentData.months[k]) : k \in 1..Len(IntentData.months)}

\* one entry for each requested month that has rows and no other entry; the
\* "No data found ..." text without a chart exactly when no requested month
\* has rows
GapsSkipped ==
    /\ ShownMonths = {m \in RequestedMonths : HasRows(m)}
    /\ Len(EntriesShown) = Cardinality(ShownMonths)
    /\ (result.summary.head = "No data found for")
          <=> (\A m \in RequestedMonths : ~HasRows(m))
    /\ (result.figure = <<>>) <=> (\A m \in RequestedMonths : ~HasRows(m))

\* C14: get_multi_month_metric reports an entry for exactly the requested
\* months that have at least one actuals row; a month without data is
\* skipped, and only when every requested month is skipped does it return
\* the 'No data found for the specified months.' text with chart None.
C14_MultiMonthGaps == MultiMonthAnswered => GapsSkipped

\* the same, for the comparisons other than a Gross Margin comparison with a
\* requested month whose Revenue is 0
C14_MultiMonthGapsOfDefinedValues ==
    (/\ MultiMonthAnswered
     /\ \/ IntentData.metric # "Gross Margin"
        \/ \A m \in RequestedMonths : RevenueOf(m) # 0) => GapsSkipped

\* the rate of transaction t: that of the fx row of its month and currency,
\* 1 when there is none
RateFor(t) ==
    LET hits == {f \in Range(data_frames.fx) :
                    f.month = t.month /\ f.currency = t.currency}
    IN  IF hits = {} THEN 1 ELSE (CHOOSE f \in hits : TRUE).rate_to_usd

\* the Revenue of entity e in month m in a table, in USD
RECURSIVE RevenueUsd(_, _, _)
RevenueUsd(table, e, m) ==
    IF table = <<>> THEN 0
    ELSE (IF /\ table[1].month = m /\ table[1].entity = e
             /\ table[1].account_category = "Revenue"
          THEN table[1].amount * RateFor(table[1]) ELSE 0)
         + RevenueUsd(Tail(table), e, m)

VarianceOf(e, m) ==
    RevenueUsd(data_frames.actuals, e, m) - RevenueUsd(data_frames.budget, e, m)

\* the reply shown is the result of get_revenue_variance_by_entity
VarianceAnswered ==
    /\ Answered /\ ~classified.raised /\ ~result.raised
    /\ IntentData.intent = "revenue_variance_by_entity"

\* C15: for the target month the summary lists exactly the entities whose
\* Revenue actual sum minus Revenue budget sum is < 0 (0 for the side an
\* entity is absent from), ordered by variance ascending; when there is none
\* it carries the congratulatory message and lists no entity.
C15_VarianceByEntity ==
    VarianceAnswered =>
        \A m \in {to_datetime(IntentData.month)} :
            /\ {EntriesShown[i].entity : i \in 1..Len(EntriesShown)}
                  = {e \in Range(Entities) : VarianceOf(e, m) < 0}
            /\ \A i \in 1..Len(EntriesShown) :
                  /\ EntriesShown[i].Variance = VarianceOf(EntriesShown[i].entity, m)
                  /\ EntriesShown[i].Actual
                        = RevenueUsd(data_frames.actuals, EntriesShown[i].entity, m)
                  /\ EntriesShown[i].Budget
                        = RevenueUsd(data_frames.budget, EntriesShown[i].entity, m)
            /\ \A i, j \in 1..Len(EntriesShown) :
                  i < j => /\ EntriesShown[i].entity # EntriesShown[j].entity
                           /\ EntriesShown[i].Variance <= EntriesShown[j].Variance
            /\ result.summary.congratulations
                  <=> (\A e \in Range(Entities) : VarianceOf(e, m) >= 0)
            /\ result.summary.congratulations => EntriesShown = <<>>

\* two entities missed their budget by different amounts, one of them
\* without any actual Revenue, and both are listed
C15_Witness ==
    /\ VarianceAnswered
    /\ Len(EntriesShown) = 2
    /\ EntriesShown[1].Variance < EntriesShown[2].Variance
    /\ \E i \in 1..2 : EntriesShown[i].Actual = 0 /\ EntriesShown[i].Budget > 0

\* row `out` is transaction t with its rate and its amount in USD
Normalized(out, t) ==
    /\ \A f \in DOMAIN t : out[f] = t[f]
    /\ out.rate_to_usd = RateFor(t)
    /\ out.amount_usd = t.amount * RateFor(t)
    /\ RateFor(t) = 1 => out.amount_usd = t.amount

\* C16: _convert_to_usd gives every transaction amount_usd = amount * rate,
\* the rate being that of the fx row of the same (month, currency) and 1.0
\* when there is none, in which case, as with a rate of exactly 1.0,
\* amount_usd = amount; the Revenue figures of a reply are sums of these.
C16_FxNormalization ==
    Answered =>
        /\ \A table \in {data_frames.actuals, data_frames.budget} :
              \A df_merged \in {convert_to_usd(table, data_frames.fx)} :
                  /\ \A j \in 1..Len(df_merged) :
                        \E i \in 1..Len(table) : Normalized(df_merged[j], table[i])
                  /\ \A i \in 1..Len(table) :
                        \E j \in 1..Len(df_merged) : Normalized(df_merged[j], table[i])
        /\ (~classified.raised /\ ~result.raised
              /\ IntentData.intent = "revenue_vs_budget") =>
              \A m \in {to_datetime(IntentData.month)} :
                  /\ result.summary.actual
                        = RevenueUsd(data_frames.actuals, "EMEA", m)
                            + RevenueUsd(data_frames.actuals, "ParentCo", m)
                  /\ result.summary.budget
                        = RevenueUsd(data_frames.budget, "EMEA", m)
                            + RevenueUsd(data_frames.budget, "ParentCo", m)

\* a revenue-vs-budget reply over a month with a transaction converted at a
\* rate of 2 and a transaction whose currency has no fx row
C16_Witness ==
    /\ Answered /\ ~classified.raised /\ ~result.raised
    /\ IntentData.intent = "revenue_vs_budget"
    /\ \E i, j \in 1..Len(data_frames.actuals) :
          /\ data_frames.actuals[i].month = to_datetime(IntentData.month)
          /\ data_frames.actuals[j].month = to_datetime(IntentData.month)
          /\ data_frames.actuals[i].account_category = "Revenue"
          /\ data_frames.actuals[j].account_category = "Revenue"
          /\ RateFor(data_frames.actuals[i]) = 2
          /\ \A f \in Range(data_frames.fx) :
                f.currency # data_frames.actuals[j].currency
          /\ result.summary.actual
                = 2 * data_frames.actuals[i].amount + data_frames.actuals[j].amount

\* C17: run_agent leaves actuals, budget, cash and fx unchanged for every
\* intent, error paths included, so the bundle stays the bundle that was
\* loaded and the reply to a prompt is the one run_agent gives for that
\* prompt on the loaded bundle, whatever was asked before.
C17_ReadOnlyDatasets ==
    /\ [][data_frames' = data_frames]_vars
    /\ [](Answered =>
            result \in run_agent(get_intent(query, data_frames, now), data_frames, now))

\* a prompt has been answered with an exception on a bundle with actuals
C17_Witness ==
    /\ Answered
    /\ result.raised
    /\ data_frames.actuals # <<>>

\* C18: one run_agent call reads the process clock at most once; the
\* classifier's default year, the historical filter and the trailing window
\* use that one value.
C18_SingleClockRead == Answered => clock_reads <= 1

\* a runway prompt has been answered by get_cash_runway
RunwayReported ==
    RunwayAnswered /\ ~result.raised /\ result.tool = "get_cash_runway"

\* floor(n / d) for d > 0
Floor(n, d) == n \div d

\* what C19 says of the reply to a burn of num / den > 0 on the balance cash
\* of the month last: the months figure, the depletion month, and a
\* projection that starts at (last, cash), steps one month and -num / den at a
\* time, and ends at or below 0
RunwayProjected(cash, num, den, last) ==
    LET s == result.summary
        p == result.figure[1].projection
    IN  /\ s.runway_months.tag = "num"
        /\ s.runway_months.n * num = cash * den * s.runway_months.d
        /\ s.end_date = last + Floor(cash * den, num)
        /\ Len(p) >= 1
        /\ p[1].month = last
        /\ p[1].cash.n = cash * p[1].cash.d
        /\ \A k \in 1..(Len(p) - 1) :
              /\ p[k + 1].month = p[k].month + 1
              /\ (p[k].cash.n * p[k + 1].cash.d - p[k + 1].cash.n * p[k].cash.d) * den
                    = num * p[k].cash.d * p[k + 1].cash.d
        /\ p[Len(p)].cash.n <= 0

\* C19: for avgBurn > 0, get_cash_runway reports runwayMonths = latestCash /
\* avgBurn and the depletion month = latest cash month + floor(runwayMonths);
\* the projection starts at the latest cash month with latestCash, falls by
\* avgBurn a month and ends at a value <= 0; for every latestCash, 0 and
\* negative balances included.
C19_RunwayProjection ==
    RunwayReported =>
        \A burn \in {calculate_net_burn(data_frames, now)} :
            /\ burn # <<>>
            /\ burn[1].avg_monthly_burn.num > 0
            /\ RunwayProjected(burn[1].latest_cash_balance,
                               burn[1].avg_monthly_burn.num,
                               burn[1].avg_monthly_burn.den,
                               burn[1].last_cash_month)

\* the same for a latest balance >= 0
C19_RunwayProjectionOfNonNegativeCash ==
    RunwayReported =>
        \A burn \in {calculate_net_burn(data_frames, now)} :
            /\ burn # <<>>
            /\ burn[1].avg_monthly_burn.num > 0
            /\ burn[1].latest_cash_balance >= 0 =>
                  RunwayProjected(burn[1].latest_cash_balance,
                                  burn[1].avg_monthly_burn.num,
                                  burn[1].avg_monthly_burn.den,
                                  burn[1].last_cash_month)

\* the bars of the chart of the reply, none for a reply without a chart
BarsOfReply ==
    IF result.figure # <<>> /\ "bars" \in DOMAIN result.figure[1]
    THEN result.figure[1].bars ELSE <<>>

\* C20: the entries of the get_multi_month_metric summary and the bars of
\* its chart are in ascending chronological order of their months, for every
\* set of requested months (June before July, December 2024 before January
\* 2025).
C20_MultiMonthChronological ==
    MultiMonthAnswered =>
        /\ Chronological
        /\ \A i, j \in 1..Len(BarsOfReply) :
              i < j => BarsOfReply[i].month < BarsOfReply[j].month

\* the fx rows of the month and currency of transaction t, as loaded
FxRowsFor(t) ==
    {k \in 1..Len(data_frames.fx) :
        /\ data_frames.fx[k].month = t.month
        /\ data_frames.fx[k].currency = t.currency}

\* df_merged holds one row per transaction of table, in the order of table,
\* with the fields of the transaction, a rate and amount_usd = amount * rate
RecordsPreserved(df_merged, table) ==
    /\ Len(df_merged) = Len(table)
    /\ \A i \in 1..Len(table) :
          /\ DOMAIN df_merged[i] = DOMAIN table[i] \cup {"rate_to_usd", "amount_usd"}
          /\ \A f \in DOMAIN table[i] : df_merged[i][f] = table[i][f]
          /\ df_merged[i].amount_usd = table[i].amount * df_merged[i].rate_to_usd

\* the Revenue figures of a revenue-vs-budget reply count each transaction
\* of the month once, at the rate its fx rows give
CountedOnce ==
    (/\ ~classified.raised /\ ~result.raised
     /\ IntentData.intent = "revenue_vs_budget"
     /\ \A f, g \in Range(data_frames.fx) :
           (f.month = g.month /\ f.currency = g.currency)
              => f.rate_to_usd = g.rate_to_usd) =>
        \A m \in {to_datetime(IntentData.month)} :
            /\ result.summary.actual
                  = RevenueUsd(data_frames.actuals, "EMEA", m)
                      + RevenueUsd(data_frames.actuals, "ParentCo", m)
            /\ result.summary.budget
                  = RevenueUsd(data_frames.budget, "EMEA", m)
                      + RevenueUsd(data_frames.budget, "ParentCo", m)

\* C21: _convert_to_usd returns exactly one record per input transaction,
\* with the same fields plus the rate and amount_usd, for every fx table,
\* one with several rows for the same (month, currency) included; so no
\* transaction is counted more than once in a sum.
C21_NormalizationPreservesRecords ==
    Answered =>
        /\ \A table \in {data_frames.actuals, data_frames.budget} :
              RecordsPreserved(convert_to_usd(table, data_frames.fx), table)
        /\ CountedOnce

\* the same for the transactions that have at most one fx row
C21_NormalizationPreservesRecordsOfUniqueFxRows ==
    Answered =>
        ((\A table \in {data_frames.actuals, data_frames.budget} :
             \A i \in 1..Len(table) : Cardinality(FxRowsFor(table[i])) <= 1) =>
            /\ \A table \in {data_frames.actuals, data_frames.budget} :
                  RecordsPreserved(convert_to_usd(table, data_frames.fx), table)
            /\ CountedOnce)

====
